---------------------------- MODULE Spec2Model ----------------------------
(***************************************************************************)
(* AgriWeather API server (src/src/api_server.py): the background Poller,  *)
(* the Latest-State Cache (latest_readings), the Alert Engine with its     *)
(* bounded per-device history (alerts), the device registry and the        *)
(* request handlers that share this state with the Poller thread.          *)
(*                                                                         *)
(* Modelling conventions                                                   *)
(*  - A Python dict is a function whose DOMAIN is the set of its keys;     *)
(*    dict.get(k, default) is Get(dict, k, default).                       *)
(*  - ISO-8601 UTC timestamps of one fixed format are ordered as strings   *)
(*    the way their instants are ordered; they are naturals >= 1 here and  *)
(*    the empty string '' (the default of a missing timestamp) is 0.       *)
(*  - Sensor values are numbers that the code only compares with           *)
(*    thresholds; they are integers here (whole units).                    *)
(*  - The Poller runs in its own thread and every Flask request in another *)
(*    one, so a handler is a sequence of steps; a step ends where the      *)
(*    code performs store I/O or where another thread's write can be       *)
(*    observed between two statements.                                     *)
(***************************************************************************)
EXTENDS Integers, Sequences, FiniteSets, TLC

(***************************************************************************)
(* Bounds of the model                                                     *)
(***************************************************************************)
\* writes the store collaborator receives in one run (Spec)
MaxUploads == 2
\* Poller ticks in one run (Spec)
MaxTicks == 2
\* greatest reading timestamp (Spec)
MaxTs == 2
\* time partitions (shards) per device
MaxParts == 2
\* get_current requests in one run (Spec)
MaxRequests == 1
\* store writes and Poller ticks in one run (SpecAlerts): thirteen readings
\* of four alerts each take a history past the retention count
MaxAlertUploads == 13
MaxAlertTicks == 13
\* Poller ticks in one run (SpecFaults)
MaxFaultTicks == 2
\* Poller ticks in one run (SpecOutage)
MaxOutageTicks == 3
\* readings a producer appends in one run (SpecAggregate)
MaxAggUploads == 3
\* minutes the server's clock runs (SpecStatus)
MaxMinutes == 65
\* store writes and ticks while clients read alerts (SpecQueries, SpecAllAlerts)
MaxQueryUploads == 3
MaxQueryTicks == 2
\* time units that pass between registrations (SpecRegistry)
MaxRegistryClock == 2
\* ticks over a store drawn with up to three shards (SpecSelect)
MaxSelectTicks == 1
\* overlapping callers of start_polling (SpecStart)
MaxStartCalls == 3

\* alerts[device_id] = alerts_list[-50:]
RetentionCount == 50

Device1 == "agriweather-device-001"
Device2 == "agriweather-device-002"
Devices == {Device1, Device2}

(***************************************************************************)
(* Python helpers                                                          *)
(***************************************************************************)
\* dict.get(key, default)
Get(dict, key, default) == IF key \in DOMAIN dict THEN dict[key] ELSE default

\* dict[key] = value
Put(dict, key, value) ==
    [k \in DOMAIN dict \cup {key} |-> IF k = key THEN value ELSE dict[k]]

\* seq[-n:]
LastN(seq, n) ==
    IF Len(seq) <= n THEN seq ELSE SubSeq(seq, Len(seq) - n + 1, Len(seq))

Front(seq) == SubSeq(seq, 1, Len(seq) - 1)

Last(seq) == seq[Len(seq)]

\* x.get('timestamp', '')
Timestamp(reading) == Get(reading, "timestamp", 0)

(***************************************************************************)
(* Shards: a shard's bytes are lines; a line is a JSON object (a reading), *)
(* text that json.loads rejects, or blank.                                 *)
(***************************************************************************)
JsonLine(reading) == [kind |-> "json", obj |-> reading]
MalformedLine == [kind |-> "malformed"]
BlankLine == [kind |-> "blank"]

\* a parser that recovers line by line: a malformed line is skipped alone
RECURSIVE ParseLinesSkippingMalformed(_, _)
ParseLinesSkippingMalformed(lines, data) ==
    IF lines = <<>> THEN data
    ELSE IF Head(lines).kind = "json"
    THEN ParseLinesSkippingMalformed(Tail(lines), Append(data, Head(lines).obj))
    ELSE ParseLinesSkippingMalformed(Tail(lines), data)

\* the for loop of parse_blob_data: blank lines are skipped, json.loads of a
\* malformed line raises and the except clause returns [] for the whole shard
RECURSIVE ParseLines(_, _)
ParseLines(lines, data) ==
    IF lines = <<>> THEN data
    ELSE IF Head(lines).kind = "blank" THEN ParseLines(Tail(lines), data)
    ELSE IF Head(lines).kind = "malformed" THEN <<>>
    ELSE ParseLines(Tail(lines), Append(data, Head(lines).obj))

parse_blob_data(blob_content) == ParseLines(blob_content, <<>>)

\* list.sort(key=timestamp) is stable: a reading goes after the readings
\* whose timestamp is not greater
RECURSIVE InsertByTimestamp(_, _)
InsertByTimestamp(sorted, reading) ==
    IF sorted = <<>> THEN <<reading>>
    ELSE IF Timestamp(Last(sorted)) <= Timestamp(reading)
         THEN Append(sorted, reading)
         ELSE Append(InsertByTimestamp(Front(sorted), reading), Last(sorted))

RECURSIVE SortByTimestamp(_)
SortByTimestamp(readings) ==
    IF readings = <<>> THEN <<>>
    ELSE InsertByTimestamp(SortByTimestamp(Front(readings)), Last(readings))

(***************************************************************************)
(* Alert Engine rules (check_conditions_and_generate_alerts, lines 113-188)*)
(***************************************************************************)
\* a frost rule that takes the freezing point itself
IsFrostInclusive(temperature) == temperature <= 0

IsFrost(temperature) == temperature < 0

IsLowTemperature(temperature) == temperature < 5

\* a heat rule that takes the threshold itself
IsHighTemperatureInclusive(temperature) == temperature >= 35

IsHighTemperature(temperature) == temperature > 35

IsLowSoilMoisture(soil_moisture) == soil_moisture < 30

IsHighWind(wind_speed) == wind_speed > 40

IsLowHumidity(humidity) == humidity < 20

MakeAlert(type, severity, timestamp, value, threshold) ==
    [type |-> type, severity |-> severity, timestamp |-> timestamp,
     value |-> value, threshold |-> threshold]

\* the cold rules as two independent ifs
ColdAlertsIndependent(temperature, timestamp) ==
    (IF IsFrost(temperature)
     THEN <<MakeAlert("frost", "critical", timestamp, temperature, 0)>>
     ELSE <<>>)
    \o (IF IsLowTemperature(temperature)
        THEN <<MakeAlert("low_temperature", "warning", timestamp, temperature, 5)>>
        ELSE <<>>)

\* if temperature < 0: frost   elif temperature < 5: low_temperature
ColdAlerts(temperature, timestamp) ==
    IF IsFrost(temperature)
    THEN <<MakeAlert("frost", "critical", timestamp, temperature, 0)>>
    ELSE IF IsLowTemperature(temperature)
    THEN <<MakeAlert("low_temperature", "warning", timestamp, temperature, 5)>>
    ELSE <<>>

\* new_alerts of one invocation, in the order the code appends them
NewAlerts(reading, timestamp) ==
    LET temperature == Get(reading, "temperature", 0)
        soil_moisture == Get(reading, "soil_moisture", 50)
        wind_speed == Get(reading, "wind_speed", 0)
        humidity == Get(reading, "humidity", 50)
    IN  ColdAlerts(temperature, timestamp)
        \o (IF IsHighTemperature(temperature)
            THEN <<MakeAlert("high_temperature", "warning", timestamp, temperature, 35)>>
            ELSE <<>>)
        \o (IF IsLowSoilMoisture(soil_moisture)
            THEN <<MakeAlert("low_soil_moisture", "warning", timestamp, soil_moisture, 30)>>
            ELSE <<>>)
        \o (IF IsHighWind(wind_speed)
            THEN <<MakeAlert("high_wind", "warning", timestamp, wind_speed, 40)>>
            ELSE <<>>)
        \o (IF IsLowHumidity(humidity)
            THEN <<MakeAlert("low_humidity", "info", timestamp, humidity, 20)>>
            ELSE <<>>)

\* a retention that keeps the oldest entries: alerts_list[:50]
TruncateKeepsOldest(alerts_list) ==
    IF Len(alerts_list) <= RetentionCount THEN alerts_list
    ELSE SubSeq(alerts_list, 1, RetentionCount)

\* alerts[device_id] = alerts_list[-50:]
Truncate(alerts_list) == LastN(alerts_list, RetentionCount)

(***************************************************************************)
(* State                                                                   *)
(***************************************************************************)
VARIABLES
    blob_service_client,  \* TRUE when the store is configured (not None)
    store,                \* the container: blob name -> [content, last_modified]
    store_clock,          \* the store's clock: number of writes it received
    devices_registry,     \* the registry dict, as its records in insertion order
    latest_readings,      \* the Latest-State Cache: device_id -> reading
    alerts,               \* device_id -> list of alerts
    now,                  \* the server's clock, read by the Alert Engine
    poller,               \* the thread running poll_sensor_data
    current,              \* a request thread running get_current_reading
    alerts_response,      \* the last response of get_device_alerts
    all_alerts_response,  \* the last response of get_all_alerts
    aggregated_response,  \* the last response of get_aggregated_data
    register_response,    \* the last response of register_device
    history_response,     \* the last response of get_history
    irrigation_response,  \* the last response of get_irrigation_recommendation
    status_response,      \* the last response of get_device_status
    polling_thread,       \* the global polling_thread: 0 is None, else a thread
    threads,              \* the Thread objects created, "created" or "alive"
    start_calls,          \* the position of each caller of start_polling
    seen_max,             \* history: greatest timestamp read so far, per device
    appended,             \* history: every alert ever appended, per device
    last_evaluated        \* history: the reading the Alert Engine was last called with

vars == <<blob_service_client, store, store_clock, devices_registry,
          latest_readings, alerts, now, poller, current, alerts_response,
          aggregated_response, register_response, history_response,
          irrigation_response, status_response, polling_thread, threads,
          start_calls, seen_max, appended, last_evaluated,
          all_alerts_response>>

\* f"{device_id}/0/{YYYY}/{MM}/{DD}/{HH}/{mm}": a device prefix and a time partition
BlobName(device_id, part) == [device |-> device_id, part |-> part]

RECURSIVE NamesFrom(_, _)
NamesFrom(device_id, part) ==
    IF part > MaxParts + 1 THEN <<>>
    ELSE (IF BlobName(device_id, part) \in DOMAIN store
          THEN <<BlobName(device_id, part)>> ELSE <<>>)
         \o NamesFrom(device_id, part + 1)

\* list(container_client.list_blobs(name_starts_with=f"{device_id}/")): the
\* store lists the names under the prefix in name order
ListBlobs(device_id) == NamesFrom(device_id, 1)

RegistryKeys == [i \in 1..Len(devices_registry) |-> devices_registry[i].device_id]

\* {"latitude": 50.0, "longitude": 20.0}
DefaultLocation == [latitude |-> 50, longitude |-> 20]

DeviceRecord(device_id, name, location, registered_at) ==
    [device_id |-> device_id, name |-> name, location |-> location,
     registered_at |-> registered_at, status |-> "online"]

NoReading == <<>>

PollerIdle(ticks) ==
    [pc |-> "sleep", ticks |-> ticks, iter_pos |-> 0, iter_size |-> 0,
     device_id |-> "", blobs |-> <<>>, idx |-> 0, all_readings |-> <<>>,
     latest |-> NoReading, current_timestamp |-> 0, alerts_list |-> <<>>,
     \* history: the shard contents merged into all_readings, whether a
     \* download of this device's scan failed, the store failures absorbed and
     \* the devices scanned in this tick
     merged_from |-> <<>>, scan_failed |-> FALSE, failures |-> 0,
     scanned |-> {},
     \* history: whether a store call of this tick succeeded
     reached |-> FALSE]

\* the Poller between two devices of one tick: the loop's locals are dead
PollerAtFor(p) ==
    [PollerIdle(p.ticks) EXCEPT !.pc = "for", !.iter_pos = p.iter_pos,
                                !.iter_size = p.iter_size,
                                !.failures = p.failures, !.scanned = p.scanned,
                                !.reached = p.reached]

NoResponse == [code |-> 0]

\* callers of start_polling, none of which has called yet
StartCallers == 1..MaxStartCalls

NoStartCalls == [c \in StartCallers |-> "idle"]

CurrentIdle(requests, response) ==
    [pc |-> "idle", requests |-> requests, device_id |-> "",
     latest_blob |-> <<>>, response |-> response]

Max(a, b) == IF a >= b THEN a ELSE b

RECURSIVE MaxTimestamp(_)
MaxTimestamp(readings) ==
    IF readings = <<>> THEN 0
    ELSE Max(Timestamp(Head(readings)), MaxTimestamp(Tail(readings)))

Init ==
    /\ blob_service_client \in BOOLEAN
    /\ store = <<>>
    /\ store_clock = 0
    /\ devices_registry =
           <<DeviceRecord(Device1, "Field A Sensor", DefaultLocation, 0)>>
    /\ latest_readings = <<>>
    /\ alerts = <<>>
    /\ now = 0
    /\ poller = PollerIdle(0)
    /\ current = CurrentIdle(0, NoResponse)
    /\ alerts_response = NoResponse
    /\ aggregated_response = NoResponse
    /\ register_response = NoResponse
    /\ all_alerts_response = NoResponse
    /\ history_response = NoResponse
    /\ irrigation_response = NoResponse
    /\ status_response = NoResponse
    /\ polling_thread = 1
    /\ threads = <<"alive">>
    /\ start_calls = NoStartCalls
    /\ seen_max = [d \in Devices |-> 0]
    /\ appended = [d \in Devices |-> <<>>]
    /\ last_evaluated = [d \in Devices |-> NoReading]

(***************************************************************************)
(* The store collaborator: a producer writes (overwrites) one shard        *)
(***************************************************************************)
WriteShard(device_id, part, content, maxUploads) ==
    /\ store_clock < maxUploads
    /\ store_clock' = store_clock + 1
    /\ store' = Put(store, BlobName(device_id, part),
                    [content |-> content, last_modified |-> store_clock + 1])
    /\ UNCHANGED <<alerts_response, blob_service_client, devices_registry,
                   latest_readings, alerts, now, poller, current, seen_max,
                   appended, last_evaluated, aggregated_response,
                   register_response, history_response, irrigation_response,
                   status_response, polling_thread, threads, start_calls,
                   all_alerts_response>>

(***************************************************************************)
(* poll_sensor_data                                                        *)
(***************************************************************************)
\* while polling_active: ... if not blob_service_client: sleep; continue
\* ... for device_id in devices_registry.keys():
PollTick(maxTicks) ==
    /\ poller.pc = "sleep"
    /\ poller.ticks < maxTicks
    /\ IF ~blob_service_client
       THEN poller' = PollerIdle(poller.ticks + 1)
       ELSE poller' = [PollerIdle(poller.ticks + 1) EXCEPT
                          !.pc = "for", !.iter_size = Len(devices_registry)]
    /\ UNCHANGED <<alerts_response, blob_service_client, store, store_clock,
                   devices_registry, latest_readings, alerts, now, current,
                   seen_max, appended, last_evaluated, aggregated_response,
                   register_response, history_response, irrigation_response,
                   status_response, polling_thread, threads, start_calls,
                   all_alerts_response>>

\* blob_service_client.get_container_client raises (line 214): the outer
\* except (line 255) logs, sleeps the interval, and the loop goes round
PollTickFails(maxTicks) ==
    /\ poller.pc = "sleep"
    /\ poller.ticks < maxTicks
    /\ blob_service_client
    /\ poller' = PollerIdle(poller.ticks + 1)
    /\ UNCHANGED <<alerts_response, blob_service_client, store, store_clock,
                   devices_registry, latest_readings, alerts, now, current,
                   seen_max, appended, last_evaluated, aggregated_response,
                   register_response, history_response, irrigation_response,
                   status_response, polling_thread, threads, start_calls,
                   all_alerts_response>>

\* the next step of the dict iterator: RuntimeError when the dict changed
\* size during iteration (caught by the outer except: the tick ends), the end
\* of the loop, or the next key
PollFor ==
    /\ poller.pc = "for"
    /\ IF Len(devices_registry) # poller.iter_size
       THEN poller' = PollerIdle(poller.ticks)
       ELSE IF poller.iter_pos = Len(devices_registry)
       THEN poller' = PollerIdle(poller.ticks)
       ELSE poller' = [PollerAtFor(poller) EXCEPT
                          !.pc = "list",
                          !.iter_pos = poller.iter_pos + 1,
                          !.device_id = RegistryKeys[poller.iter_pos + 1],
                          !.scanned = poller.scanned
                                          \cup {RegistryKeys[poller.iter_pos + 1]}]
    /\ UNCHANGED <<alerts_response, blob_service_client, store, store_clock,
                   devices_registry, latest_readings, alerts, now, current,
                   seen_max, appended, last_evaluated, aggregated_response,
                   register_response, history_response, irrigation_response,
                   status_response, polling_thread, threads, start_calls,
                   all_alerts_response>>

\* blobs = list(container_client.list_blobs(...)); if not blobs: continue
PollList ==
    /\ poller.pc = "list"
    /\ LET blobs == ListBlobs(poller.device_id)
       IN  IF blobs = <<>>
           THEN poller' = PollerAtFor([poller EXCEPT !.reached = TRUE])
           ELSE poller' = [poller EXCEPT !.pc = "download", !.blobs = blobs,
                                         !.idx = 1, !.reached = TRUE]
    /\ UNCHANGED <<alerts_response, blob_service_client, store, store_clock,
                   devices_registry, latest_readings, alerts, now, current,
                   seen_max, appended, last_evaluated, aggregated_response,
                   register_response, history_response, irrigation_response,
                   status_response, polling_thread, threads, start_calls,
                   all_alerts_response>>

\* a Poller whose thread dies of a failed listing
PollListFailsStopsPoller ==
    /\ poller.pc = "list"
    /\ poller' = [PollerIdle(poller.ticks) EXCEPT !.pc = "stopped"]
    /\ UNCHANGED <<alerts_response, blob_service_client, store, store_clock,
                   devices_registry, latest_readings, alerts, now, current,
                   seen_max, appended, last_evaluated, aggregated_response,
                   register_response, history_response, irrigation_response,
                   status_response, polling_thread, threads, start_calls,
                   all_alerts_response>>

\* list_blobs raises: except Exception (line 250), next device
PollListFails ==
    /\ poller.pc = "list"
    /\ poller' = PollerAtFor([poller EXCEPT !.failures = poller.failures + 1])
    /\ UNCHANGED <<alerts_response, blob_service_client, store, store_clock,
                   devices_registry, latest_readings, alerts, now, current,
                   seen_max, appended, last_evaluated, aggregated_response,
                   register_response, history_response, irrigation_response,
                   status_response, polling_thread, threads, start_calls,
                   all_alerts_response>>

PollAfterBlob(p) ==
    IF p.idx = Len(p.blobs) THEN [p EXCEPT !.pc = "select", !.idx = 0,
                                           !.blobs = <<>>]
    ELSE [p EXCEPT !.idx = p.idx + 1]

\* blob_data = download_blob().readall(); readings = parse_blob_data(blob_data);
\* all_readings.extend(readings)
PollDownload ==
    /\ poller.pc = "download"
    /\ LET readings == parse_blob_data(store[poller.blobs[poller.idx]].content)
       IN  /\ poller' = PollAfterBlob(
                  [poller EXCEPT
                      !.all_readings = poller.all_readings \o readings,
                      !.merged_from =
                          Append(poller.merged_from,
                                 store[poller.blobs[poller.idx]].content)])
           /\ seen_max' = [seen_max EXCEPT ![poller.device_id] =
                              Max(@, MaxTimestamp(readings))]
    /\ UNCHANGED <<alerts_response, blob_service_client, store, store_clock,
                   devices_registry, latest_readings, alerts, now, current,
                   appended, last_evaluated, aggregated_response,
                   register_response, history_response, irrigation_response,
                   status_response, polling_thread, threads, start_calls,
                   all_alerts_response>>

\* a Poller without the per-shard handler: the failure reaches the handler
\* of the device and the rest of its shards is skipped
PollDownloadFailsSkipsDevice ==
    /\ poller.pc = "download"
    /\ poller' = PollerAtFor([poller EXCEPT !.failures = poller.failures + 1])
    /\ UNCHANGED <<alerts_response, blob_service_client, store, store_clock,
                   devices_registry, latest_readings, alerts, now, current,
                   seen_max, appended, last_evaluated, aggregated_response,
                   register_response, history_response, irrigation_response,
                   status_response, polling_thread, threads, start_calls,
                   all_alerts_response>>

\* download_blob raises: except Exception: continue (line 233)
PollDownloadFails ==
    /\ poller.pc = "download"
    /\ poller' = PollAfterBlob([poller EXCEPT !.scan_failed = TRUE,
                                              !.failures = poller.failures + 1])
    /\ UNCHANGED <<alerts_response, blob_service_client, store, store_clock,
                   devices_registry, latest_readings, alerts, now, current,
                   seen_max, appended, last_evaluated, aggregated_response,
                   register_response, history_response, irrigation_response,
                   status_response, polling_thread, threads, start_calls,
                   all_alerts_response>>

\* a selection by arrival: the reading read last
LatestOfArrival(all_readings) == Last(all_readings)

\* all_readings.sort(key=lambda x: x.get('timestamp', ''));
\* latest = all_readings[-1]
LatestOf(all_readings) == Last(SortByTimestamp(all_readings))

\* if all_readings: sort; latest = all_readings[-1];
\* current_timestamp = latest_readings.get(device_id, {}).get('timestamp', '')
PollSelect ==
    /\ poller.pc = "select"
    /\ IF poller.all_readings = <<>>
       THEN poller' = PollerAtFor(poller)
       ELSE poller' = [poller EXCEPT
                          !.pc = "compare",
                          !.all_readings = <<>>,
                          !.merged_from = <<>>,
                          !.latest = LatestOf(poller.all_readings),
                          !.current_timestamp =
                              Timestamp(Get(latest_readings, poller.device_id,
                                            NoReading))]
    /\ UNCHANGED <<alerts_response, blob_service_client, store, store_clock,
                   devices_registry, latest_readings, alerts, now, current,
                   seen_max, appended, last_evaluated, aggregated_response,
                   register_response, history_response, irrigation_response,
                   status_response, polling_thread, threads, start_calls,
                   all_alerts_response>>

\* if new_timestamp > current_timestamp or not current_timestamp
IsNewer(new_timestamp, current_timestamp) ==
    new_timestamp > current_timestamp \/ current_timestamp = 0

\* if new_timestamp > current_timestamp or not current_timestamp:
\*     latest_readings[device_id] = latest
PollCompare ==
    /\ poller.pc = "compare"
    /\ IF IsNewer(Timestamp(poller.latest), poller.current_timestamp)
       THEN /\ latest_readings' = Put(latest_readings, poller.device_id,
                                      poller.latest)
            /\ poller' = [poller EXCEPT !.pc = "engine", !.current_timestamp = 0]
       ELSE /\ poller' = PollerAtFor(poller)
            /\ UNCHANGED latest_readings
    /\ UNCHANGED <<alerts_response, blob_service_client, store, store_clock,
                   devices_registry, alerts, now, current, seen_max, appended,
                   last_evaluated, aggregated_response, register_response,
                   history_response, irrigation_response, status_response,
                   polling_thread, threads, start_calls, all_alerts_response>>

\* check_conditions_and_generate_alerts up to alerts_list.extend(new_alerts):
\* alerts.get(device_id, []) is the stored list itself when the device has
\* one, so extend grows the stored list in place
PollEngineExtend ==
    /\ poller.pc = "engine"
    /\ last_evaluated' = [last_evaluated EXCEPT ![poller.device_id] =
                             poller.latest]
    /\ IF DOMAIN poller.latest = {}
       THEN /\ poller' = PollerAtFor(poller)
            /\ UNCHANGED <<alerts, now, appended>>
       ELSE LET new_alerts == NewAlerts(poller.latest, now + 1)
                alerts_list == Get(alerts, poller.device_id, <<>>) \o new_alerts
            IN  /\ now' = now + 1
                /\ alerts' = IF poller.device_id \in DOMAIN alerts
                             THEN Put(alerts, poller.device_id, alerts_list)
                             ELSE alerts
                /\ appended' = [appended EXCEPT ![poller.device_id] =
                                   @ \o new_alerts]
                /\ poller' = [poller EXCEPT !.pc = "truncate",
                                            !.latest = NoReading,
                                            !.alerts_list = alerts_list]
    /\ UNCHANGED <<alerts_response, blob_service_client, store, store_clock,
                   devices_registry, latest_readings, current, seen_max,
                   aggregated_response, register_response, history_response,
                   irrigation_response, status_response, polling_thread,
                   threads, start_calls, all_alerts_response>>

\* alerts[device_id] = alerts_list[-50:]
PollEngineStore ==
    /\ poller.pc = "truncate"
    /\ alerts' = Put(alerts, poller.device_id, Truncate(poller.alerts_list))
    /\ poller' = PollerAtFor(poller)
    /\ UNCHANGED <<alerts_response, blob_service_client, store, store_clock,
                   devices_registry, latest_readings, now, current, seen_max,
                   appended, last_evaluated, aggregated_response,
                   register_response, history_response, irrigation_response,
                   status_response, polling_thread, threads, start_calls,
                   all_alerts_response>>

(***************************************************************************)
(* get_current_reading                                                     *)
(***************************************************************************)
Response(code, body) == [code |-> code, body |-> body]

\* if device_id in latest_readings: return it; if not blob_service_client: 503
CurrentCall(device_id, maxRequests) ==
    /\ current.pc = "idle"
    /\ current.requests < maxRequests
    /\ IF device_id \in DOMAIN latest_readings
       THEN current' = CurrentIdle(current.requests + 1,
                                   Response(200, latest_readings[device_id]))
       ELSE IF ~blob_service_client
       THEN current' = CurrentIdle(current.requests + 1,
                                   Response(503, "Storage not configured"))
       ELSE current' = [CurrentIdle(current.requests + 1, NoResponse) EXCEPT
                           !.pc = "list", !.device_id = device_id]
    /\ UNCHANGED <<alerts_response, blob_service_client, store, store_clock,
                   devices_registry, latest_readings, alerts, now, poller,
                   seen_max, appended, last_evaluated, aggregated_response,
                   register_response, history_response, irrigation_response,
                   status_response, polling_thread, threads, start_calls,
                   all_alerts_response>>

\* max(blobs, key=lambda b: b.last_modified): the first of the greatest
RECURSIVE LatestBlob(_)
LatestBlob(blobs) ==
    IF Len(blobs) = 1 THEN blobs[1]
    ELSE LET rest == LatestBlob(Tail(blobs))
         IN  IF store[rest].last_modified > store[blobs[1]].last_modified
             THEN rest ELSE blobs[1]

\* blobs = list(...); if not blobs: 404; latest_blob = max(blobs, ...)
CurrentList ==
    /\ current.pc = "list"
    /\ LET blobs == ListBlobs(current.device_id)
       IN  IF blobs = <<>>
           THEN current' = CurrentIdle(current.requests,
                                       Response(404, "No data found for device"))
           ELSE current' = [current EXCEPT !.pc = "download",
                                           !.latest_blob = LatestBlob(blobs)]
    /\ UNCHANGED <<alerts_response, blob_service_client, store, store_clock,
                   devices_registry, latest_readings, alerts, now, poller,
                   seen_max, appended, last_evaluated, aggregated_response,
                   register_response, history_response, irrigation_response,
                   status_response, polling_thread, threads, start_calls,
                   all_alerts_response>>

\* a store call raises: except Exception: 500
CurrentFails ==
    /\ current.pc \in {"list", "download"}
    /\ current' = CurrentIdle(current.requests, Response(500, "error"))
    /\ UNCHANGED <<alerts_response, blob_service_client, store, store_clock,
                   devices_registry, latest_readings, alerts, now, poller,
                   seen_max, appended, last_evaluated, aggregated_response,
                   register_response, history_response, irrigation_response,
                   status_response, polling_thread, threads, start_calls,
                   all_alerts_response>>

\* readings = parse_blob_data(download); if readings: latest = readings[-1];
\* latest_readings[device_id] = latest; 200   else 404
CurrentDownload ==
    /\ current.pc = "download"
    /\ LET readings == parse_blob_data(store[current.latest_blob].content)
       IN  /\ seen_max' = [seen_max EXCEPT ![current.device_id] =
                              Max(@, MaxTimestamp(readings))]
           /\ IF readings # <<>>
              THEN /\ latest_readings' = Put(latest_readings, current.device_id,
                                             Last(readings))
                   /\ current' = CurrentIdle(current.requests,
                                             Response(200, Last(readings)))
              ELSE /\ current' = CurrentIdle(current.requests,
                                             Response(404, "No readings found"))
                   /\ UNCHANGED latest_readings
    /\ UNCHANGED <<alerts_response, blob_service_client, store, store_clock,
                   devices_registry, alerts, now, poller, appended,
                   last_evaluated, aggregated_response, register_response,
                   history_response, irrigation_response, status_response,
                   polling_thread, threads, start_calls, all_alerts_response>>

PollerStep ==
    \/ PollFor
    \/ PollList
    \/ PollListFails
    \/ PollDownload
    \/ PollDownloadFails
    \/ PollSelect
    \/ PollCompare
    \/ PollEngineExtend
    \/ PollEngineStore

CurrentStep ==
    \/ CurrentList
    \/ CurrentFails
    \/ CurrentDownload

(***************************************************************************)
(* Spec: one device, the Poller, get_current requests and store writes     *)
(***************************************************************************)
Reading(device_id, timestamp, temperature) ==
    [device_id |-> device_id, timestamp |-> timestamp,
     temperature |-> temperature]

SpecLines == {JsonLine(Reading(Device1, ts, 36)) : ts \in 1..MaxTs}

\* producers append in time order: a shard's lines are in timestamp order
SpecContents ==
    {<<l>> : l \in SpecLines}
        \cup {c \in {<<l1, l2>> : l1 \in SpecLines, l2 \in SpecLines} :
                 Timestamp(c[1].obj) <= Timestamp(c[2].obj)}

Upload ==
    \E part \in 1..MaxParts, content \in SpecContents :
        WriteShard(Device1, part, content, MaxUploads)

Tick == PollTick(MaxTicks)

GetCurrent == \E device_id \in {Device1} : CurrentCall(device_id, MaxRequests)

Next ==
    \/ Upload
    \/ Tick
    \/ PollerStep
    \/ GetCurrent
    \/ CurrentStep

Spec == Init /\ [][Next]_vars

(***************************************************************************)
(* Cache freshness under concurrency (Spec)                                *)
(***************************************************************************)
\* C1: the timestamp of a device's cache entry never decreases, under every
\* interleaving of Poller ticks and get_current requests
C1_CacheNeverRegresses ==
    [][\A d \in DOMAIN latest_readings :
          /\ d \in DOMAIN latest_readings'
          /\ Timestamp(latest_readings'[d]) >= Timestamp(latest_readings[d])]_vars

\* no Poller scan and no get_current request is between its reads and its write
Quiescent == poller.pc \in {"sleep", "for"} /\ current.pc = "idle"

\* C2: whenever no operation is in flight, a device that has had readings read
\* by the Poller or by a direct fetch caches one with the greatest timestamp
\* read so far
C2_CacheHoldsMaxSeen ==
    Quiescent =>
        \A d \in DOMAIN latest_readings :
            Timestamp(latest_readings[d]) = seen_max[d]

\* C5: the Alert Engine is invoked at most once for each distinct reading of
\* a device: it is never invoked again with the reading of its previous
\* invocation for that device (which is what a tick over an unchanged store
\* would evaluate)
C5_EngineOncePerReading ==
    [][(poller.pc = "engine" /\ poller'.pc # "engine") =>
           poller.latest # last_evaluated[poller.device_id]]_vars

(***************************************************************************)
(* SpecEngine: the Alert Engine on one reading.  The Poller has just       *)
(* cached the reading (line 246) and calls the engine with it (line 247);  *)
(* the reading ranges over every combination of values at, just below and  *)
(* just above each threshold, and of missing fields.                       *)
(***************************************************************************)
\* a field that is present with one of the values, or missing
Field(name, values) ==
    {[k \in {name} |-> v] : v \in values} \cup {[k \in {} |-> 0]}

EngineReadings ==
    {[device_id |-> Device1, timestamp |-> 1] @@ t @@ s @@ w @@ h :
        t \in Field("temperature", {-1, 0, 4, 5, 6, 35, 36}),
        s \in Field("soil_moisture", {29, 30, 31}),
        w \in Field("wind_speed", {39, 40, 41}),
        h \in Field("humidity", {19, 20, 21})}

InitEngine ==
    \E reading \in EngineReadings :
        /\ blob_service_client = TRUE
        /\ store = (BlobName(Device1, 1) :>
                       [content |-> <<JsonLine(reading)>>, last_modified |-> 1])
        /\ store_clock = 1
        /\ devices_registry =
               <<DeviceRecord(Device1, "Field A Sensor", DefaultLocation, 0)>>
        /\ latest_readings = (Device1 :> reading)
        /\ alerts = <<>>
        /\ now = 0
        /\ poller = [PollerIdle(1) EXCEPT !.pc = "engine", !.iter_pos = 1,
                                          !.iter_size = 1, !.device_id = Device1,
                                          !.latest = reading, !.reached = TRUE]
        /\ current = CurrentIdle(0, NoResponse)
        /\ alerts_response = NoResponse
        /\ aggregated_response = NoResponse
        /\ register_response = NoResponse
        /\ all_alerts_response = NoResponse
        /\ history_response = NoResponse
        /\ irrigation_response = NoResponse
        /\ status_response = NoResponse
        /\ polling_thread = 1
        /\ threads = <<"alive">>
        /\ start_calls = NoStartCalls
        /\ seen_max = [d \in Devices |-> IF d = Device1 THEN 1 ELSE 0]
        /\ appended = [d \in Devices |-> <<>>]
        /\ last_evaluated = [d \in Devices |-> NoReading]

NextEngine ==
    \/ PollEngineExtend
    \/ PollEngineStore

SpecEngine == InitEngine /\ [][NextEngine]_vars

\* the engine has returned from its call for Device1
EngineReturned == poller.pc = "for" /\ now = 1

\* the reading it was called with
Evaluated == last_evaluated[Device1]

\* the alerts it appended to the history, as a set
AppendedSet == {alerts[Device1][i] : i \in DOMAIN alerts[Device1]}

AppendedTypes == {a.type : a \in AppendedSet}

Has(reading, field, value) == field \in DOMAIN reading /\ reading[field] = value

\* C6 as stated: a reading whose temperature is exactly 0 gets a frost alert
\* (critical, threshold 0) and no low-temperature alert
C6_ZeroIsFrost ==
    (EngineReturned /\ Has(Evaluated, "temperature", 0)) =>
        /\ MakeAlert("frost", "critical", now, 0, 0) \in AppendedSet
        /\ "low_temperature" \notin AppendedTypes

\* C6 amended: a reading whose temperature is exactly 0 gets a low-temperature
\* alert (warning, threshold 5) and no frost alert
C6_ZeroIsLowTemperature ==
    (EngineReturned /\ Has(Evaluated, "temperature", 0)) =>
        /\ MakeAlert("low_temperature", "warning", now, 0, 5) \in AppendedSet
        /\ "frost" \notin AppendedTypes

C6_Witness ==
    /\ EngineReturned
    /\ Has(Evaluated, "temperature", 0)
    /\ "low_temperature" \in AppendedTypes

\* C7: every threshold other than frost's is strict: a value exactly at 5, 35,
\* 30, 40, 20 raises no alert of its kind, and a value just past a threshold
\* (36, -1, 4, 29, 41, 19) raises it
C7_StrictThresholds ==
    EngineReturned =>
        /\ Has(Evaluated, "temperature", 5) => "low_temperature" \notin AppendedTypes
        /\ Has(Evaluated, "temperature", 35) => "high_temperature" \notin AppendedTypes
        /\ Has(Evaluated, "soil_moisture", 30) => "low_soil_moisture" \notin AppendedTypes
        /\ Has(Evaluated, "wind_speed", 40) => "high_wind" \notin AppendedTypes
        /\ Has(Evaluated, "humidity", 20) => "low_humidity" \notin AppendedTypes
        /\ Has(Evaluated, "temperature", 36) => "high_temperature" \in AppendedTypes
        /\ Has(Evaluated, "temperature", -1) => "frost" \in AppendedTypes
        /\ Has(Evaluated, "temperature", 4) => "low_temperature" \in AppendedTypes
        /\ Has(Evaluated, "soil_moisture", 29) => "low_soil_moisture" \in AppendedTypes
        /\ Has(Evaluated, "wind_speed", 41) => "high_wind" \in AppendedTypes
        /\ Has(Evaluated, "humidity", 19) => "low_humidity" \in AppendedTypes

C7_Witness ==
    /\ EngineReturned
    /\ Has(Evaluated, "temperature", 35)
    /\ Has(Evaluated, "soil_moisture", 30)
    /\ Has(Evaluated, "wind_speed", 40)
    /\ Has(Evaluated, "humidity", 20)
    /\ AppendedSet = {}

\* the rows of the condition table that a reading satisfies, its missing
\* fields taking the documented defaults
TableRows(reading, timestamp) ==
    LET t == Get(reading, "temperature", 0)
        s == Get(reading, "soil_moisture", 50)
        w == Get(reading, "wind_speed", 0)
        h == Get(reading, "humidity", 50)
    IN  {a \in {MakeAlert("frost", "critical", timestamp, t, 0)} : t < 0}
        \cup {a \in {MakeAlert("low_temperature", "warning", timestamp, t, 5)} :
                 0 <= t /\ t < 5}
        \cup {a \in {MakeAlert("high_temperature", "warning", timestamp, t, 35)} :
                 t > 35}
        \cup {a \in {MakeAlert("low_soil_moisture", "warning", timestamp, s, 30)} :
                 s < 30}
        \cup {a \in {MakeAlert("high_wind", "warning", timestamp, w, 40)} : w > 40}
        \cup {a \in {MakeAlert("low_humidity", "info", timestamp, h, 20)} : h < 20}

\* C8: the alerts appended for a reading are exactly the table rows it
\* satisfies, each once, with the row's severity and threshold and the
\* triggering value, and at most one of them is a temperature alert
C8_AlertsAreTableRows ==
    EngineReturned =>
        /\ AppendedSet = TableRows(Evaluated, now)
        /\ Len(alerts[Device1]) = Cardinality(AppendedSet)
        /\ Cardinality(AppendedTypes \cap
               {"frost", "low_temperature", "high_temperature"}) <= 1

C8_Witness ==
    /\ EngineReturned
    /\ AppendedTypes = {"frost", "low_soil_moisture", "high_wind", "low_humidity"}

(***************************************************************************)
(* get_device_alerts                                                       *)
(***************************************************************************)
\* [a for a in device_alerts if a.get('severity') == severity]
FilterSeverity(device_alerts, severity) ==
    LET Matches(a) == a.severity = severity
    IN  IF severity = "" THEN device_alerts ELSE SelectSeq(device_alerts, Matches)

\* device_alerts[-limit:]: a limit of 0 is the slice [0:], the whole list, and
\* a negative one drops the first -limit entries
LimitSlice(device_alerts, limit) ==
    IF limit = 0 THEN device_alerts
    ELSE IF limit > 0 THEN LastN(device_alerts, limit)
    ELSE SubSeq(device_alerts, 1 - limit, Len(device_alerts))

\* the handler reads the stored list object: what it returns is the list as
\* it is when the handler copies it
GetDeviceAlerts(device_id, severity, limit) ==
    /\ IF device_id \notin {devices_registry[i].device_id :
                               i \in DOMAIN devices_registry}
       THEN alerts_response' = Response(404, "Device not found")
       ELSE LET device_alerts ==
                    LimitSlice(FilterSeverity(Get(alerts, device_id, <<>>),
                                              severity), limit)
            IN  alerts_response' =
                    [code |-> 200, device_id |-> device_id,
                     severity |-> severity, limit |-> limit,
                     alerts |-> device_alerts, count |-> Len(device_alerts),
                     has_critical |-> \E i \in DOMAIN device_alerts :
                                         device_alerts[i].severity = "critical",
                     has_warnings |-> \E i \in DOMAIN device_alerts :
                                         device_alerts[i].severity = "warning"]
    /\ UNCHANGED <<blob_service_client, store, store_clock, devices_registry,
                   latest_readings, alerts, now, poller, current,
                   aggregated_response, register_response, seen_max, appended,
                   last_evaluated, history_response, irrigation_response,
                   status_response, polling_thread, threads, start_calls,
                   all_alerts_response>>

(***************************************************************************)
(* SpecAlerts: a long run of one device.  A producer keeps writing a newer *)
(* reading that crosses four thresholds, the Poller keeps evaluating the   *)
(* latest one, and a client reads the history.                             *)
(***************************************************************************)
StormReading(timestamp) ==
    [device_id |-> Device1, timestamp |-> timestamp, temperature |-> -1,
     soil_moisture |-> 29, wind_speed |-> 41, humidity |-> 19]

UploadStorm ==
    WriteShard(Device1, 1, <<JsonLine(StormReading(store_clock + 1))>>,
               MaxAlertUploads)

AlertsTick == PollTick(MaxAlertTicks)

GetAlerts ==
    \E limit \in {20, 100} : GetDeviceAlerts(Device1, "", limit)

NextAlerts ==
    \/ UploadStorm
    \/ AlertsTick
    \/ PollerStep

NextReaders ==
    \/ NextAlerts
    \/ GetAlerts

SpecReaders == Init /\ [][NextReaders]_vars

SpecAlerts == Init /\ [][NextAlerts]_vars

\* the Alert Engine is not in the middle of an invocation
EngineIdle == poller.pc # "truncate"

\* C3: after any sequence of Alert Engine invocations the stored history of a
\* device is the last 50 of all the alerts ever appended for it, in the order
\* they were appended: at most 50 entries, and exactly 50 once more than 50
\* were appended
C3_HistoryIsLastFifty ==
    EngineIdle =>
        \A d \in Devices :
            /\ Get(alerts, d, <<>>) = LastN(appended[d], 50)
            /\ Len(Get(alerts, d, <<>>)) <= 50
            /\ Len(appended[d]) > 50 => Len(Get(alerts, d, <<>>)) = 50

C3_Witness ==
    /\ EngineIdle
    /\ Len(appended[Device1]) > 50
    /\ Len(alerts[Device1]) = 50
    /\ alerts[Device1][1] = appended[Device1][Len(appended[Device1]) - 49]

\* the prefixes of the append log that end where an invocation ends
InvocationEnds(d) ==
    {n \in 0..Len(appended[d]) :
        \/ n = 0
        \/ n = Len(appended[d])
        \/ appended[d][n].timestamp # appended[d][n + 1].timestamp}

\* the values the history of a device has had between invocations
CompleteHistories(d) ==
    {LastN(SubSeq(appended[d], 1, n), 50) : n \in InvocationEnds(d)}

\* C4: a reader never observes a history in an intermediate state: what
\* get_device_alerts returns has at most 50 entries and is the window of a
\* complete (old or new) value of the history
C4_ReadersSeeCompleteHistories ==
    alerts_response.code = 200 =>
        /\ alerts_response.count <= 50
        /\ \E h \in CompleteHistories(alerts_response.device_id) :
               alerts_response.alerts =
                   LastN(FilterSeverity(h, alerts_response.severity),
                         alerts_response.limit)

(***************************************************************************)
(* register_device                                                         *)
(***************************************************************************)
\* a registry that takes every registration as a new entry
RegistryPutAppends(registry, device_info) == Append(registry, device_info)

\* devices_registry[device_id] = device_info: a dict keeps the position of a
\* key it already has and puts a new key last
RegistryPut(registry, device_info) ==
    IF \E i \in DOMAIN registry : registry[i].device_id = device_info.device_id
    THEN [i \in DOMAIN registry |->
             IF registry[i].device_id = device_info.device_id
             THEN device_info ELSE registry[i]]
    ELSE Append(registry, device_info)

\* a handler that stores the record before it validates the body
RegisterDeviceThenValidate(data) ==
    LET device_id == Get(data, "device_id", "")
        device_info ==
            DeviceRecord(device_id, Get(data, "name", "Device " \o device_id),
                         Get(data, "location", DefaultLocation), now)
    IN
    /\ devices_registry' = RegistryPut(devices_registry, device_info)
    /\ register_response' =
           IF device_id = ""
           THEN [code |-> 400, body |-> "device_id is required", data |-> data]
           ELSE [code |-> 201, body |-> device_info, data |-> data]
    /\ UNCHANGED <<blob_service_client, store, store_clock, latest_readings,
                   alerts, now, poller, current, alerts_response,
                   aggregated_response, seen_max, appended, last_evaluated,
                   history_response, irrigation_response, status_response,
                   polling_thread, threads, start_calls, all_alerts_response>>

\* data is the JSON body: 400 when it is empty or has no device_id, else the
\* record is built with the defaults of the missing fields and stored
RegisterDevice(data) ==
    /\ IF DOMAIN data = {} \/ "device_id" \notin DOMAIN data
       THEN /\ register_response' =
                   [code |-> 400, body |-> "device_id is required",
                    \* history: the body of the request
                    data |-> data]
            /\ UNCHANGED devices_registry
       ELSE LET device_id == data.device_id
                device_info ==
                    DeviceRecord(device_id,
                                 Get(data, "name", "Device " \o device_id),
                                 Get(data, "location", DefaultLocation),
                                 now)
            IN  /\ devices_registry' = RegistryPut(devices_registry, device_info)
                /\ register_response' =
                       [code |-> 201, body |-> device_info, data |-> data]
    /\ UNCHANGED <<blob_service_client, store, store_clock, latest_readings,
                   alerts, now, poller, current, alerts_response,
                   aggregated_response, seen_max, appended, last_evaluated,
                   history_response, irrigation_response, status_response,
                   polling_thread, threads, start_calls, all_alerts_response>>

(***************************************************************************)
(* get_aggregated_data.  The handler only reads the store and writes no    *)
(* shared state; its listing and downloads are taken at one instant.       *)
(* Statistics are in hundredths, the precision of round(x, 2).             *)
(***************************************************************************)
\* for blob in blobs: all_readings.extend(parse_blob_data(download))
RECURSIVE MergeShards(_)
MergeShards(contents) ==
    IF contents = <<>> THEN <<>>
    ELSE parse_blob_data(Head(contents)) \o MergeShards(Tail(contents))

\* statistics that give a reading without the field the value 0
FieldValuesDefaulted(all_readings, field) ==
    [i \in DOMAIN all_readings |-> Get(all_readings[i], field, 0)]

\* [r.get(field, 0) for r in all_readings if field in r]
FieldValues(all_readings, field) ==
    LET Carries(r) == field \in DOMAIN r
        carrying == SelectSeq(all_readings, Carries)
    IN  [i \in DOMAIN carrying |-> carrying[i][field]]

RECURSIVE Sum(_)
Sum(values) == IF values = <<>> THEN 0 ELSE Head(values) + Sum(Tail(values))

Min(a, b) == IF a <= b THEN a ELSE b

RECURSIVE MinOf(_)
MinOf(values) ==
    IF Len(values) = 1 THEN values[1] ELSE Min(Head(values), MinOf(Tail(values)))

RECURSIVE MaxOf(_)
MaxOf(values) ==
    IF Len(values) = 1 THEN values[1] ELSE Max(Head(values), MaxOf(Tail(values)))

\* round(value, 2) of a whole number
Round2(value) == 100 * value

\* round(total / count, 2): the nearest hundredth, a tie going to the even one
RoundedAverage(total, count) ==
    LET n == 100 * total
        q == n \div count
        r == n % count
    IN  IF 2 * r < count THEN q
        ELSE IF 2 * r > count THEN q + 1
        ELSE IF q % 2 = 0 THEN q ELSE q + 1

\* {"min": ..., "max": ..., "avg": ...} if values else 0 for each
MinMaxAvg(values) ==
    IF values = <<>> THEN [min |-> 0, max |-> 0, avg |-> 0]
    ELSE [min |-> Round2(MinOf(values)), max |-> Round2(MaxOf(values)),
          avg |-> RoundedAverage(Sum(values), Len(values))]

\* {"total": round(sum, 2), "avg": ... if rainfalls else 0}
TotalAvg(values) ==
    [total |-> Round2(Sum(values)),
     avg |-> IF values = <<>> THEN 0
             ELSE RoundedAverage(Sum(values), Len(values))]

\* device_id = "" stands for a request without the device_id parameter
GetAggregated(device_id, period) ==
    /\ IF device_id = ""
       THEN aggregated_response' = Response(400, "device_id parameter required")
       ELSE IF ~blob_service_client
       THEN aggregated_response' = Response(503, "Storage not configured")
       ELSE LET blobs == ListBlobs(device_id)
                contents == [i \in DOMAIN blobs |-> store[blobs[i]].content]
                all_readings == MergeShards(contents)
            IN  IF all_readings = <<>>
                THEN aggregated_response' = Response(404, "No data found")
                ELSE aggregated_response' =
                         [code |-> 200, device_id |-> device_id,
                          period |-> period,
                          temperature |->
                              MinMaxAvg(FieldValues(all_readings, "temperature")),
                          humidity |->
                              MinMaxAvg(FieldValues(all_readings, "humidity")),
                          rainfall |->
                              TotalAvg(FieldValues(all_readings, "rainfall")),
                          readings_count |-> Len(all_readings),
                          \* history: the shard contents the handler read
                          merged_from |-> contents]
    /\ UNCHANGED <<blob_service_client, store, store_clock, devices_registry,
                   latest_readings, alerts, now, poller, current,
                   alerts_response, register_response, seen_max, appended,
                   last_evaluated, history_response, irrigation_response,
                   status_response, polling_thread, threads, start_calls,
                   all_alerts_response>>

\* a store call raises: except Exception: 500
GetAggregatedFails(device_id) ==
    /\ device_id # ""
    /\ blob_service_client
    /\ aggregated_response' = Response(500, "error")
    /\ UNCHANGED <<blob_service_client, store, store_clock, devices_registry,
                   latest_readings, alerts, now, poller, current,
                   alerts_response, register_response, seen_max, appended,
                   last_evaluated, history_response, irrigation_response,
                   status_response, polling_thread, threads, start_calls,
                   all_alerts_response>>

(***************************************************************************)
(* SpecFaults: two devices over a store that holds valid shards, shards    *)
(* with a malformed line and shards with blank lines (the second device    *)
(* has its two shards, both valid; each shard of the first may be missing);*)
(* store calls may                                                         *)
(* fail, a second device may be registered at any time and a client asks   *)
(* for aggregates.                                                         *)
(***************************************************************************)
FaultReading(device_id, timestamp) ==
    Reading(device_id, timestamp, 35 + timestamp)

\* what time partition part of a device may hold: the reading of that time,
\* a later reading followed by a malformed line, or the reading among blank
\* lines
ShardChoices(device_id, part) ==
    {<<JsonLine(FaultReading(device_id, part))>>,
     <<JsonLine(FaultReading(device_id, part + 2)), MalformedLine>>,
     <<BlankLine, JsonLine(FaultReading(device_id, part)), BlankLine>>}

FaultNames == {BlobName(d, part) : d \in Devices, part \in 1..2}

FaultChoices(name) ==
    IF name.device = Device1 THEN ShardChoices(name.device, name.part)
    ELSE {<<JsonLine(FaultReading(name.device, name.part))>>}

FaultStores ==
    UNION {{[name \in names |->
                [content |-> contents[name], last_modified |-> name.part]] :
            contents \in {c \in [names -> UNION {FaultChoices(n) : n \in names}] :
                             \A n \in names : c[n] \in FaultChoices(n)}} :
           names \in {n \in SUBSET FaultNames :
                         \A name \in FaultNames : name.device = Device2 => name \in n}}

InitFaults ==
    /\ blob_service_client \in BOOLEAN
    /\ store \in FaultStores
    /\ store_clock = 2
    /\ devices_registry =
           <<DeviceRecord(Device1, "Field A Sensor", DefaultLocation, 0)>>
    /\ latest_readings = <<>>
    /\ alerts = <<>>
    /\ now = 0
    /\ poller = PollerIdle(0)
    /\ current = CurrentIdle(0, NoResponse)
    /\ alerts_response = NoResponse
    /\ aggregated_response = NoResponse
    /\ register_response = NoResponse
    /\ all_alerts_response = NoResponse
    /\ history_response = NoResponse
    /\ irrigation_response = NoResponse
    /\ status_response = NoResponse
    /\ polling_thread = 1
    /\ threads = <<"alive">>
    /\ start_calls = NoStartCalls
    /\ seen_max = [d \in Devices |-> 0]
    /\ appended = [d \in Devices |-> <<>>]
    /\ last_evaluated = [d \in Devices |-> NoReading]

FaultsTick == PollTick(MaxFaultTicks)

Register == \E data \in {<<>>, [device_id |-> Device2]} : RegisterDevice(data)

Aggregate == \E device_id \in {"", Device1} : GetAggregated(device_id, "day")

AggregateFails == GetAggregatedFails(Device1)

NextFaults ==
    \/ FaultsTick
    \/ PollerStep
    \/ Register
    \/ Aggregate
    \/ AggregateFails

SpecFaults == InitFaults /\ [][NextFaults]_vars

\* the readings a shard contributes by the rule of C9: those of its non-blank
\* lines, in order, when every one of them is valid JSON, and none otherwise
ShardReadings(content) ==
    LET NonBlank(line) == line.kind # "blank"
        lines == SelectSeq(content, NonBlank)
    IN  IF \E i \in DOMAIN lines : lines[i].kind = "malformed" THEN <<>>
        ELSE [i \in DOMAIN lines |-> lines[i].obj]

RECURSIVE ReadingsOf(_)
ReadingsOf(contents) ==
    IF contents = <<>> THEN <<>>
    ELSE ShardReadings(Head(contents)) \o ReadingsOf(Tail(contents))

HasMalformedLine(content) ==
    \E i \in DOMAIN content : content[i].kind = "malformed"

HasJsonLine(content) ==
    \E i \in DOMAIN content : content[i].kind = "json"

\* C9: a malformed line makes its whole shard contribute no reading, its
\* valid lines included, and blocks no other shard: what a Poller tick has
\* merged for a device, and what an aggregation merges, are exactly the
\* readings of the shards read whose every non-blank line is valid JSON
C9_MalformedLineEmptiesItsShard ==
    /\ poller.pc \in {"download", "select"} =>
           poller.all_readings = ReadingsOf(poller.merged_from)
    /\ aggregated_response.code = 200 =>
           LET merged == ReadingsOf(aggregated_response.merged_from)
           IN  /\ aggregated_response.readings_count = Len(merged)
               /\ aggregated_response.temperature =
                      MinMaxAvg(FieldValues(merged, "temperature"))

\* the Poller and an aggregation have each merged a shard that has a valid
\* line and a malformed one together with a shard that is valid throughout
C9_Witness ==
    /\ poller.pc = "select"
    /\ \E i \in DOMAIN poller.merged_from :
           HasMalformedLine(poller.merged_from[i]) /\ HasJsonLine(poller.merged_from[i])
    /\ poller.all_readings # <<>>
    /\ aggregated_response.code = 200
    /\ \E i \in DOMAIN aggregated_response.merged_from :
           /\ HasMalformedLine(aggregated_response.merged_from[i])
           /\ HasJsonLine(aggregated_response.merged_from[i])

\* the Poller's step is the absorption of a failed store call
ListFailed == poller.pc = "list" /\ poller'.failures > poller.failures

DownloadFailed == poller.pc = "download" /\ poller'.failures > poller.failures

\* the step leaves the cache entry and the alert history of the device under
\* scan as they are
DeviceUntouched ==
    /\ Get(latest_readings', poller.device_id, NoReading) =
           Get(latest_readings, poller.device_id, NoReading)
    /\ Get(alerts', poller.device_id, <<>>) = Get(alerts, poller.device_id, <<>>)

\* the tick goes on after the step
TickGoesOn ==
    /\ poller'.pc # "sleep"
    /\ poller'.ticks = poller.ticks
    /\ poller'.iter_pos = poller.iter_pos
    /\ poller'.scanned = poller.scanned

OutageTick ==
    \/ PollTick(MaxOutageTicks)
    \/ PollTickFails(MaxOutageTicks)

NextOutage ==
    \/ OutageTick
    \/ PollerStep

SpecOutage ==
    /\ InitFaults
    /\ [][NextOutage]_vars
    /\ WF_vars(OutageTick)
    /\ WF_vars(PollerStep)

\* a step of the Poller
PollerMoves == poller' # poller

\* C11: as long as a tick has not reached the store (store unconfigured, or
\* every store call so far failed) the Poller's steps change neither the
\* cache nor any alert history; an unconfigured or unreachable store ends the
\* tick at once, a failed listing or download is not repeated and no device
\* is scanned twice in a tick; and the Poller never ends: a tick in progress
\* returns to the interval sleep and every sleep is followed by another tick
C11_UnreachableTickIsHarmless ==
    /\ [][/\ (PollerMoves /\ ~poller.reached) =>
                 UNCHANGED <<latest_readings, alerts>>
          /\ (PollerMoves /\ poller.pc = "sleep" /\ ~poller'.reached
                 /\ poller'.pc # "for") =>
                 poller' = PollerIdle(poller.ticks + 1)
          /\ (PollerMoves /\ poller.pc = "sleep" /\ ~blob_service_client) =>
                 poller' = PollerIdle(poller.ticks + 1)
          /\ ListFailed => poller'.pc = "for"
          /\ DownloadFailed => (poller'.idx = poller.idx + 1
                                   \/ poller'.pc = "select")
          /\ (poller.pc = "for" /\ poller'.pc = "list") =>
                 poller'.device_id \notin poller.scanned]_vars
    /\ (poller.pc # "sleep") ~> (poller.pc = "sleep")
    /\ \A k \in 0..(MaxOutageTicks - 1) :
           (poller.pc = "sleep" /\ poller.ticks = k) ~> (poller.ticks = k + 1)

\* a later tick whose listing failed, over a cache and a history that an
\* earlier tick filled
C11_Witness ==
    /\ poller.pc = "for"
    /\ poller.ticks >= 2
    /\ poller.iter_pos = 1
    /\ poller.failures >= 1
    /\ ~poller.reached
    /\ Device1 \in DOMAIN latest_readings
    /\ Device1 \in DOMAIN alerts
    /\ alerts[Device1] # <<>>

(***************************************************************************)
(* start_polling.  A caller checks the global polling_thread, creates a    *)
(* Thread object and stores it in the global, then starts the thread the   *)
(* global holds at that moment.  poll_sensor_data sets polling_active and  *)
(* nothing ever clears it, so a started Poller thread stays alive.         *)
(***************************************************************************)
\* if polling_thread is None or not polling_thread.is_alive():
StartCheck(c) ==
    /\ start_calls[c] = "idle"
    /\ start_calls' =
           [start_calls EXCEPT ![c] =
               IF polling_thread = 0 \/ threads[polling_thread] # "alive"
               THEN "create" ELSE "returned"]
    /\ UNCHANGED <<blob_service_client, store, store_clock, devices_registry,
                   latest_readings, alerts, now, poller, current,
                   alerts_response, aggregated_response, register_response,
                   history_response, irrigation_response, status_response,
                   polling_thread, threads, seen_max, appended, last_evaluated,
                   all_alerts_response>>

\* polling_active = True; polling_thread = threading.Thread(...)
StartCreate(c) ==
    /\ start_calls[c] = "create"
    /\ threads' = Append(threads, "created")
    /\ polling_thread' = Len(threads) + 1
    /\ start_calls' = [start_calls EXCEPT ![c] = "start"]
    /\ UNCHANGED <<blob_service_client, store, store_clock, devices_registry,
                   latest_readings, alerts, now, poller, current,
                   alerts_response, aggregated_response, register_response,
                   history_response, irrigation_response, status_response,
                   seen_max, appended, last_evaluated, all_alerts_response>>

\* polling_thread.start(): Thread.start raises RuntimeError when the thread
\* the global holds was already started
StartThread(c) ==
    /\ start_calls[c] = "start"
    /\ IF threads[polling_thread] = "created"
       THEN /\ threads' = [threads EXCEPT ![polling_thread] = "alive"]
            /\ start_calls' = [start_calls EXCEPT ![c] = "returned"]
       ELSE /\ start_calls' = [start_calls EXCEPT ![c] = "raised"]
            /\ UNCHANGED threads
    /\ UNCHANGED <<blob_service_client, store, store_clock, devices_registry,
                   latest_readings, alerts, now, poller, current,
                   alerts_response, aggregated_response, register_response,
                   history_response, irrigation_response, status_response,
                   polling_thread, seen_max, appended, last_evaluated,
                   all_alerts_response>>

(***************************************************************************)
(* SpecStart: the process before any Poller runs, and callers of           *)
(* start_polling that may overlap.                                         *)
(***************************************************************************)
InitStart ==
    /\ blob_service_client \in BOOLEAN
    /\ store = <<>>
    /\ store_clock = 0
    /\ devices_registry =
           <<DeviceRecord(Device1, "Field A Sensor", DefaultLocation, 0)>>
    /\ latest_readings = <<>>
    /\ alerts = <<>>
    /\ now = 0
    /\ poller = PollerIdle(0)
    /\ current = CurrentIdle(0, NoResponse)
    /\ alerts_response = NoResponse
    /\ aggregated_response = NoResponse
    /\ register_response = NoResponse
    /\ all_alerts_response = NoResponse
    /\ history_response = NoResponse
    /\ irrigation_response = NoResponse
    /\ status_response = NoResponse
    /\ polling_thread = 0
    /\ threads = <<>>
    /\ start_calls = NoStartCalls
    /\ seen_max = [d \in Devices |-> 0]
    /\ appended = [d \in Devices |-> <<>>]
    /\ last_evaluated = [d \in Devices |-> NoReading]

NextStart ==
    \E c \in StartCallers :
        \/ StartCheck(c)
        \/ StartCreate(c)
        \/ StartThread(c)

SpecStart == InitStart /\ [][NextStart]_vars

\* the Poller tasks that are running
RunningPollers == {t \in DOMAIN threads : threads[t] = "alive"}

\* C12: after any number of start_polling calls, overlapping ones included,
\* at most one Poller task is running
C12_AtMostOnePoller == Cardinality(RunningPollers) <= 1

(***************************************************************************)
(* SpecFresh: as Spec, with the producer writing only between two ticks,   *)
(* so that a tick runs over the store it found when it started.            *)
(***************************************************************************)
UploadBetweenTicks ==
    /\ poller.pc = "sleep"
    /\ Upload

NextFresh ==
    \/ UploadBetweenTicks
    \/ Tick
    \/ PollerStep
    \/ GetCurrent
    \/ CurrentStep

SpecFresh == Init /\ [][NextFresh]_vars

\* the readings the store holds for a device
StoredReadings(device_id) ==
    LET blobs == ListBlobs(device_id)
    IN  ReadingsOf([i \in DOMAIN blobs |-> store[blobs[i]].content])

\* the step that completes a tick in which no store call failed and the
\* iteration reached the end of the registry
TickCompletes ==
    /\ poller.pc = "for"
    /\ poller'.pc = "sleep"
    /\ poller.failures = 0
    /\ poller.iter_pos = Len(devices_registry)
    /\ poller.iter_size = Len(devices_registry)

\* C13: when a tick over an available store completes, no registered device
\* has a stored reading newer than its cached one: the cache holds a reading
\* with the greatest timestamp in the store for the device, and get_current
\* returns the cached reading
C13_NewDataVisibleAfterTick ==
    [][/\ TickCompletes =>
              \A i \in DOMAIN RegistryKeys :
                  StoredReadings(RegistryKeys[i]) # <<>> =>
                      /\ RegistryKeys[i] \in DOMAIN latest_readings
                      /\ Timestamp(latest_readings[RegistryKeys[i]]) >=
                             MaxTimestamp(StoredReadings(RegistryKeys[i]))
       /\ (/\ current.pc = "idle"
           /\ current'.pc = "idle"
           /\ current'.requests > current.requests
           /\ blob_service_client) =>
              \E d \in DOMAIN latest_readings :
                  current'.response = Response(200, latest_readings[d])]_vars

\* C14: the cache is written only by the Poller, whatever request handlers
\* run, and the device registry only by the registration operation
C14_OnlyPollerWritesCache ==
    [][/\ latest_readings' # latest_readings => PollerMoves
       /\ devices_registry' # devices_registry =>
              register_response'.code = 201]_vars

\* the documented result of an aggregation over no readings
ZeroStatistics ==
    [temperature |-> [min |-> 0, max |-> 0, avg |-> 0],
     humidity |-> [min |-> 0, max |-> 0, avg |-> 0],
     rainfall |-> [total |-> 0, avg |-> 0],
     readings_count |-> 0]

\* C15: over the fixed store of SpecFaults, get_aggregated for Device1
\* answers NoData (404) only when the device has no shard at all, and answers
\* the zero-valued statistics, not an error, when the device has shards but
\* no reading
C15_NoDataOnlyWithoutShards ==
    /\ aggregated_response.code = 404 => ListBlobs(Device1) = <<>>
    /\ (/\ aggregated_response.code \in {200, 404}
        /\ ListBlobs(Device1) # <<>>
        /\ StoredReadings(Device1) = <<>>) =>
           /\ aggregated_response.code = 200
           /\ aggregated_response.temperature = ZeroStatistics.temperature
           /\ aggregated_response.humidity = ZeroStatistics.humidity
           /\ aggregated_response.rainfall = ZeroStatistics.rainfall
           /\ aggregated_response.readings_count = 0

(***************************************************************************)
(* SpecAggregate: a producer appends readings, each carrying any subset of *)
(* temperature, humidity and rainfall, to the shard of their time          *)
(* partition, and a client asks for the aggregates.                        *)
(***************************************************************************)
AggReadings(timestamp) ==
    {[device_id |-> Device1, timestamp |-> timestamp] @@ t @@ h @@ r :
        t \in Field("temperature", {10, 21}),
        h \in Field("humidity", {40}),
        r \in Field("rainfall", {3})}

\* existing_data.append(data); upload_blob(content, overwrite=True)
AppendReading(device_id, part, reading, maxUploads) ==
    WriteShard(device_id, part,
               Get(store, BlobName(device_id, part), [content |-> <<>>]).content
                   \o <<JsonLine(reading)>>,
               maxUploads)

AggUpload ==
    \E reading \in AggReadings(store_clock + 1) :
        AppendReading(Device1, 1 + (store_clock % 2), reading, MaxAggUploads)

NextAggregate ==
    \/ AggUpload
    \/ Aggregate

SpecAggregate == Init /\ [][NextAggregate]_vars

\* the values of a field among the readings that carry it, and their sum
Carriers(readings, field) == {i \in DOMAIN readings : field \in DOMAIN readings[i]}

RECURSIVE SumOver(_, _, _)
SumOver(readings, field, indices) ==
    IF indices = {} THEN 0
    ELSE LET i == CHOOSE j \in indices : TRUE
         IN  readings[i][field] + SumOver(readings, field, indices \ {i})

\* min, max and avg (in hundredths, half to even) over the carriers of a field
CarriedStatistics(readings, field) ==
    LET carriers == Carriers(readings, field)
        values == {readings[i][field] : i \in carriers}
        total == SumOver(readings, field, carriers)
        count == Cardinality(carriers)
    IN  IF carriers = {} THEN [min |-> 0, max |-> 0, avg |-> 0]
        ELSE [min |-> 100 * (CHOOSE v \in values : \A w \in values : v <= w),
              max |-> 100 * (CHOOSE v \in values : \A w \in values : v >= w),
              avg |-> CHOOSE a \in (100 * total) \div count - 1
                                       .. (100 * total) \div count + 1 :
                          \/ 2 * (a * count - 100 * total) \in (1 - count)..(count - 1)
                          \/ /\ 2 * (a * count - 100 * total) \in {count, 0 - count}
                             /\ a % 2 = 0]

\* the readings a 200 response was computed from
Aggregated(response) == ReadingsOf(response.merged_from)

\* the reading of the greatest timestamp among them: the one appended last
Newest(readings) ==
    CHOOSE r \in {readings[i] : i \in DOMAIN readings} :
        \A i \in DOMAIN readings : Timestamp(readings[i]) <= Timestamp(r)

AsSet(readings) == {readings[i] : i \in DOMAIN readings}

\* the later response covers the readings of the earlier one and one more
OneReadingAdded(earlier, later) ==
    /\ earlier.code = 200
    /\ later.code = 200
    /\ Len(Aggregated(later)) = Len(Aggregated(earlier)) + 1
    /\ AsSet(Aggregated(earlier)) =
           AsSet(Aggregated(later)) \ {Newest(Aggregated(later))}

\* C16: each field's statistics are those of the readings that carry the
\* field, and readings_count counts every reading; an added reading without
\* rainfall changes neither rainfall total nor rainfall avg, raises
\* readings_count by one, and changes the temperature and humidity
\* statistics by its own temperature and humidity only
C16_StatisticsPerCarriedField ==
    [][/\ aggregated_response'.code = 200 =>
              LET readings == Aggregated(aggregated_response')
              IN  /\ aggregated_response'.readings_count = Len(readings)
                  /\ aggregated_response'.temperature =
                         CarriedStatistics(readings, "temperature")
                  /\ aggregated_response'.humidity =
                         CarriedStatistics(readings, "humidity")
                  /\ aggregated_response'.rainfall.avg =
                         CarriedStatistics(readings, "rainfall").avg
                  /\ aggregated_response'.rainfall.total =
                         100 * SumOver(readings, "rainfall",
                                       Carriers(readings, "rainfall"))
       /\ (/\ OneReadingAdded(aggregated_response, aggregated_response')
           /\ "rainfall" \notin
                  DOMAIN Newest(Aggregated(aggregated_response'))) =>
              LET added == Newest(Aggregated(aggregated_response'))
                  before == Aggregated(aggregated_response)
              IN  /\ aggregated_response'.rainfall =
                         aggregated_response.rainfall
                  /\ aggregated_response'.readings_count =
                         aggregated_response.readings_count + 1
                  /\ aggregated_response'.temperature =
                         CarriedStatistics(Append(before, added), "temperature")
                  /\ aggregated_response'.humidity =
                         CarriedStatistics(Append(before, added), "humidity")
                  /\ "temperature" \notin DOMAIN added =>
                         aggregated_response'.temperature =
                             aggregated_response.temperature
                  /\ "humidity" \notin DOMAIN added =>
                         aggregated_response'.humidity =
                             aggregated_response.humidity]_vars

\* an aggregation over three readings in two shards, the last of which was
\* added without rainfall to readings that carry rainfall
C16_Witness ==
    /\ aggregated_response.code = 200
    /\ aggregated_response.readings_count = 3
    /\ Len(aggregated_response.merged_from) = 2
    /\ "rainfall" \notin DOMAIN Newest(Aggregated(aggregated_response))
    /\ "temperature" \in DOMAIN Newest(Aggregated(aggregated_response))
    /\ aggregated_response.rainfall.total = 600
    /\ aggregated_response.rainfall.avg = 300

(***************************************************************************)
(* get_irrigation_recommendation                                           *)
(***************************************************************************)
\* a decision that looks at the rainfall before the temperature
IrrigationRainfallFirst(soil_moisture, temperature, rainfall) ==
    IF soil_moisture < 30
    THEN [needs_irrigation |-> TRUE,
          recommendation |-> "Irrigation recommended - soil moisture is low",
          water_amount |-> 1000 + (30 - soil_moisture) * 50]
    ELSE IF rainfall > 5
    THEN [needs_irrigation |-> FALSE,
          recommendation |-> "Recent rainfall detected - no irrigation needed",
          water_amount |-> 0]
    ELSE IF soil_moisture < 40 /\ temperature > 25
    THEN [needs_irrigation |-> TRUE,
          recommendation |-> "Light irrigation recommended - high temperature and moderate soil moisture",
          water_amount |-> 500]
    ELSE [needs_irrigation |-> FALSE,
          recommendation |-> "Soil moisture levels are adequate",
          water_amount |-> 0]

\* the if / elif / elif / else of the handler; water_amount is in hundredths
\* of a liter: 10 + (30 - soil_moisture) * 0.5 is 1000 + (30 - soil) * 50
Irrigation(soil_moisture, temperature, rainfall) ==
    IF soil_moisture < 30
    THEN [needs_irrigation |-> TRUE,
          recommendation |-> "Irrigation recommended - soil moisture is low",
          water_amount |-> 1000 + (30 - soil_moisture) * 50]
    ELSE IF soil_moisture < 40 /\ temperature > 25
    THEN [needs_irrigation |-> TRUE,
          recommendation |-> "Light irrigation recommended - high temperature and moderate soil moisture",
          water_amount |-> 500]
    ELSE IF rainfall > 5
    THEN [needs_irrigation |-> FALSE,
          recommendation |-> "Recent rainfall detected - no irrigation needed",
          water_amount |-> 0]
    ELSE [needs_irrigation |-> FALSE,
          recommendation |-> "Soil moisture levels are adequate",
          water_amount |-> 0]

\* a response whose water amount depends on the crop
IrrigationResponseByCrop(device_id, crop_type, cache) ==
    LET reading == Get(cache, device_id, <<>>)
        soil_moisture == Get(reading, "soil_moisture", 50)
        temperature == Get(reading, "temperature", 20)
        rainfall == Get(reading, "rainfall", 0)
        humidity == Get(reading, "humidity", 50)
        decision == Irrigation(soil_moisture, temperature, rainfall)
    IN  [code |-> 200, device_id |-> device_id, crop_type |-> crop_type,
         current_conditions |->
             [soil_moisture |-> soil_moisture, temperature |-> temperature,
              rainfall |-> rainfall, humidity |-> humidity],
         recommendation |-> decision.recommendation,
         needs_irrigation |-> decision.needs_irrigation,
         suggested_water_amount_liters |->
             IF crop_type = "wheat" THEN 2 * decision.water_amount
             ELSE decision.water_amount,
         timestamp |-> now]

\* current = latest_readings.get(device_id, {}); the four .get with defaults;
\* the decision; the 200 response
IrrigationResponse(device_id, crop_type, cache) ==
    LET reading == Get(cache, device_id, <<>>)
        soil_moisture == Get(reading, "soil_moisture", 50)
        temperature == Get(reading, "temperature", 20)
        rainfall == Get(reading, "rainfall", 0)
        humidity == Get(reading, "humidity", 50)
        decision == Irrigation(soil_moisture, temperature, rainfall)
    IN  [code |-> 200, device_id |-> device_id, crop_type |-> crop_type,
         current_conditions |->
             [soil_moisture |-> soil_moisture, temperature |-> temperature,
              rainfall |-> rainfall, humidity |-> humidity],
         recommendation |-> decision.recommendation,
         needs_irrigation |-> decision.needs_irrigation,
         suggested_water_amount_liters |-> decision.water_amount,
         timestamp |-> now]

\* the whole handler; on a cache miss it calls get_current_reading, which
\* answers 503, 404 or, having stored the last reading of the shard modified
\* last in the cache, 200
GetIrrigation(device_id, crop_type) ==
    LET blobs == ListBlobs(device_id)
        readings == parse_blob_data(store[LatestBlob(blobs)].content)
        unchanged == UNCHANGED <<latest_readings, seen_max>>
    IN
    /\ IF device_id = ""
       THEN /\ irrigation_response' =
                   Response(400, "device_id parameter required")
            /\ unchanged
       ELSE IF device_id \in DOMAIN latest_readings
       THEN /\ irrigation_response' =
                   IrrigationResponse(device_id, crop_type, latest_readings)
            /\ unchanged
       ELSE IF ~blob_service_client \/ blobs = <<>>
       THEN /\ irrigation_response' =
                   Response(404, "Could not retrieve current data")
            /\ unchanged
       ELSE /\ seen_max' = [seen_max EXCEPT ![device_id] =
                               Max(@, MaxTimestamp(readings))]
            /\ IF readings = <<>>
               THEN /\ irrigation_response' =
                           Response(404, "Could not retrieve current data")
                    /\ UNCHANGED latest_readings
               ELSE /\ latest_readings' =
                           Put(latest_readings, device_id, Last(readings))
                    /\ irrigation_response' =
                           IrrigationResponse(device_id, crop_type,
                                              latest_readings')
    /\ UNCHANGED <<blob_service_client, store, store_clock, devices_registry,
                   alerts, now, poller, current, alerts_response,
                   aggregated_response, register_response, appended,
                   last_evaluated, history_response, status_response,
                   polling_thread, threads, start_calls, all_alerts_response>>

\* a store call of the nested get_current_reading raises: it answers 500
GetIrrigationFails(device_id) ==
    /\ device_id # ""
    /\ device_id \notin DOMAIN latest_readings
    /\ blob_service_client
    /\ irrigation_response' = Response(404, "Could not retrieve current data")
    /\ UNCHANGED <<blob_service_client, store, store_clock, devices_registry,
                   latest_readings, alerts, now, poller, current,
                   alerts_response, aggregated_response, register_response,
                   seen_max, appended, last_evaluated, history_response,
                   status_response, polling_thread, threads, start_calls,
                   all_alerts_response>>

(***************************************************************************)
(* SpecIrrigation: the store holds one reading of the first device, which  *)
(* carries any subset of soil_moisture, temperature, rainfall and humidity;*)
(* the cache holds that reading or nothing; clients ask for                *)
(* recommendations.                                                        *)
(***************************************************************************)
IrrigationReadings ==
    {[device_id |-> Device1, timestamp |-> 1] @@ s @@ t @@ r @@ h :
        s \in Field("soil_moisture", {25, 29, 30, 35, 39, 40, 60}),
        t \in Field("temperature", {20, 25, 26, 28}),
        r \in Field("rainfall", {0, 5, 6, 8}),
        h \in Field("humidity", {45})}

InitIrrigation ==
    /\ blob_service_client \in BOOLEAN
    /\ \E reading \in IrrigationReadings :
           /\ store = Put(<<>>, BlobName(Device1, 1),
                          [content |-> <<JsonLine(reading)>>,
                           last_modified |-> 1])
           /\ \/ /\ latest_readings = <<>>
                 /\ seen_max = [d \in Devices |-> 0]
              \/ /\ latest_readings = Put(<<>>, Device1, reading)
                 /\ seen_max = [d \in Devices |->
                                    IF d = Device1 THEN 1 ELSE 0]
    /\ store_clock = 1
    /\ devices_registry =
           <<DeviceRecord(Device1, "Field A Sensor", DefaultLocation, 0)>>
    /\ alerts = <<>>
    /\ now = 0
    /\ poller = PollerIdle(0)
    /\ current = CurrentIdle(0, NoResponse)
    /\ alerts_response = NoResponse
    /\ aggregated_response = NoResponse
    /\ register_response = NoResponse
    /\ all_alerts_response = NoResponse
    /\ history_response = NoResponse
    /\ irrigation_response = NoResponse
    /\ status_response = NoResponse
    /\ polling_thread = 1
    /\ threads = <<"alive">>
    /\ start_calls = NoStartCalls
    /\ appended = [d \in Devices |-> <<>>]
    /\ last_evaluated = [d \in Devices |-> NoReading]

Recommend ==
    \E device_id \in {"", Device1, Device2}, crop_type \in {"general", "wheat"} :
        GetIrrigation(device_id, crop_type)

RecommendFails == GetIrrigationFails(Device1)

NextIrrigation ==
    \/ Recommend
    \/ RecommendFails

SpecIrrigation == InitIrrigation /\ [][NextIrrigation]_vars

\* the conditions a 200 response reports: (soil_moisture, temperature,
\* rainfall)
Conditions ==
    <<irrigation_response.current_conditions.soil_moisture,
      irrigation_response.current_conditions.temperature,
      irrigation_response.current_conditions.rainfall>>

Recommended(needs_irrigation, water_amount) ==
    /\ irrigation_response.needs_irrigation = needs_irrigation
    /\ irrigation_response.suggested_water_amount_liters = water_amount

\* C17: the recommendation follows the decision table, first match winning
\* (water amounts in hundredths of a liter): soil_moisture < 30 gives
\* irrigation of 10 + (30 - soil_moisture) * 0.5 liters; otherwise
\* soil_moisture < 40 and temperature > 25 gives irrigation of 5 liters;
\* otherwise rainfall > 5 gives no irrigation with the recent-rainfall
\* message; otherwise no irrigation with the adequate message.  (25, 20, 0)
\* gives 12.5 liters, (35, 28, 0) gives 5 liters and (60, 20, 8) gives no
\* irrigation with the rainfall message.  The soil moisture and rainfall
\* decided on are those of the cached reading.
C17_DecisionTable ==
    irrigation_response.code = 200 =>
        LET soil_moisture == Conditions[1]
            temperature == Conditions[2]
            rainfall == Conditions[3]
            low == soil_moisture < 30
            light == ~low /\ soil_moisture < 40 /\ temperature > 25
            rained == ~low /\ ~light /\ rainfall > 5
        IN  /\ low => Recommended(TRUE, 1000 + (30 - soil_moisture) * 50)
            /\ light => Recommended(TRUE, 500)
            /\ rained =>
                   /\ Recommended(FALSE, 0)
                   /\ irrigation_response.recommendation =
                          "Recent rainfall detected - no irrigation needed"
            /\ (~low /\ ~light /\ ~rained) =>
                   /\ Recommended(FALSE, 0)
                   /\ irrigation_response.recommendation =
                          "Soil moisture levels are adequate"
            /\ Conditions = <<25, 20, 0>> => Recommended(TRUE, 1250)
            /\ Conditions = <<35, 28, 0>> => Recommended(TRUE, 500)
            /\ Conditions = <<60, 20, 8>> =>
                   /\ Recommended(FALSE, 0)
                   /\ irrigation_response.recommendation =
                          "Recent rainfall detected - no irrigation needed"
            /\ irrigation_response.device_id \in DOMAIN latest_readings
            /\ LET reading == latest_readings[irrigation_response.device_id]
               IN  /\ soil_moisture = Get(reading, "soil_moisture", 50)
                   /\ rainfall = Get(reading, "rainfall", 0)
                   /\ "temperature" \in DOMAIN reading =>
                          temperature = reading.temperature

\* a recommendation on moderate soil moisture, high temperature and recent
\* rainfall, fetched from the store on a cache miss: the second row wins
C17_Witness ==
    /\ irrigation_response.code = 200
    /\ Conditions = <<35, 28, 8>>
    /\ Recommended(TRUE, 500)
    /\ seen_max[Device1] = 1
    /\ blob_service_client

\* C18: the Recommendation Engine consumes a reading that lacks a numeric
\* field with the defaults of the Alert Engine: temperature 0, humidity 50,
\* soil moisture 50, rainfall 0
C18_SameDefaultsEverywhere ==
    irrigation_response.code = 200 =>
        LET reading == latest_readings[irrigation_response.device_id]
            conditions == irrigation_response.current_conditions
        IN  /\ conditions.temperature = Get(reading, "temperature", 0)
            /\ conditions.humidity = Get(reading, "humidity", 50)
            /\ conditions.soil_moisture = Get(reading, "soil_moisture", 50)
            /\ conditions.rainfall = Get(reading, "rainfall", 0)

(***************************************************************************)
(* get_device_status.  Time is in minutes.  An ISO-8601 timestamp is its   *)
(* wall-clock time and its UTC offset; text that is no date has neither;   *)
(* None is the value of a missing field.                                   *)
(***************************************************************************)
\* timedelta(hours=1)
OneHour == 60

None == <<>>

IsoTimestamp(wall, offset) == [wall |-> wall, offset |-> offset]

NotADate == [text |-> "yesterday"]

\* datetime.fromisoformat(s.replace('Z', '+00:00')) raises on None (it has no
\* replace) and on text that is no date
Parses(timestamp) == "wall" \in DOMAIN timestamp

\* the instant of an aware datetime, in minutes UTC
Instant(datetime) == datetime.wall - datetime.offset

\* datetime.now(timezone.utc).replace(tzinfo=last_time.tzinfo) - last_time:
\* the UTC wall clock relabelled with the offset of last_time
TimeDiff(clock, last_time) ==
    Instant(IsoTimestamp(clock, last_time.offset)) - Instant(last_time)

\* try: ... if time_diff < timedelta(hours=1): online else: offline
\* except: unknown
StatusOf(last_seen, clock) ==
    IF ~Parses(last_seen) THEN "unknown"
    ELSE IF TimeDiff(clock, last_seen) < OneHour THEN "online"
    ELSE "offline"

\* devices_registry[device_id]
Registered(device_id) ==
    devices_registry[CHOOSE i \in DOMAIN devices_registry :
                         devices_registry[i].device_id = device_id]

GetDeviceStatus(device_id) ==
    /\ IF \A i \in DOMAIN devices_registry :
              devices_registry[i].device_id # device_id
       THEN status_response' = Response(404, "Device not found")
       ELSE LET cached == device_id \in DOMAIN latest_readings
                last_seen == IF cached
                             THEN Get(latest_readings[device_id], "timestamp", None)
                             ELSE None
            IN  status_response' =
                    [code |-> 200, device_id |-> device_id,
                     status |-> IF cached THEN StatusOf(last_seen, now)
                                ELSE "unknown",
                     last_seen |-> last_seen,
                     registered |-> Registered(device_id).registered_at,
                     \* history: the clock the handler read
                     at |-> now]
    /\ UNCHANGED <<blob_service_client, store, store_clock, devices_registry,
                   latest_readings, alerts, now, poller, current,
                   alerts_response, aggregated_response, register_response,
                   seen_max, appended, last_evaluated, history_response,
                   irrigation_response, polling_thread, threads, start_calls,
                   all_alerts_response>>

(***************************************************************************)
(* SpecStatus: the cache holds nothing or one reading of the first device, *)
(* stamped at minute 0, stamped three hours ahead of minute 0, stamped     *)
(* with text that is no date, or not stamped; the clock runs and clients   *)
(* ask for the status of a registered and of an unknown device.            *)
(***************************************************************************)
StatusReadings ==
    {[device_id |-> Device1, temperature |-> 21] @@ t :
        t \in Field("timestamp", {IsoTimestamp(0, 0),
                                  IsoTimestamp(3 * OneHour, 0),
                                  NotADate})}

InitStatus ==
    /\ blob_service_client \in BOOLEAN
    /\ store = <<>>
    /\ store_clock = 0
    /\ devices_registry =
           <<DeviceRecord(Device1, "Field A Sensor", DefaultLocation, 0)>>
    /\ \/ latest_readings = <<>>
       \/ \E reading \in StatusReadings :
              latest_readings = Put(<<>>, Device1, reading)
    /\ alerts = <<>>
    /\ now = 0
    /\ poller = PollerIdle(0)
    /\ current = CurrentIdle(0, NoResponse)
    /\ alerts_response = NoResponse
    /\ aggregated_response = NoResponse
    /\ register_response = NoResponse
    /\ all_alerts_response = NoResponse
    /\ history_response = NoResponse
    /\ irrigation_response = NoResponse
    /\ status_response = NoResponse
    /\ polling_thread = 1
    /\ threads = <<"alive">>
    /\ start_calls = NoStartCalls
    /\ seen_max = [d \in Devices |-> 0]
    /\ appended = [d \in Devices |-> <<>>]
    /\ last_evaluated = [d \in Devices |-> NoReading]

\* a unit of time passes
ElapseUntil(maxClock) ==
    /\ now < maxClock
    /\ now' = now + 1
    /\ UNCHANGED <<blob_service_client, store, store_clock, devices_registry,
                   latest_readings, alerts, poller, current, alerts_response,
                   aggregated_response, register_response, seen_max, appended,
                   last_evaluated, history_response, irrigation_response,
                   status_response, polling_thread, threads, start_calls,
                   all_alerts_response>>

Elapse == ElapseUntil(MaxMinutes)

Status == \E device_id \in Devices : GetDeviceStatus(device_id)

NextStatus ==
    \/ Elapse
    \/ Status

SpecStatus == InitStatus /\ [][NextStatus]_vars

\* the timestamp lies within 1 hour of the clock
WithinOneHour(timestamp, clock) ==
    /\ clock - Instant(timestamp) < OneHour
    /\ Instant(timestamp) - clock < OneHour

\* C19: for a registered device the status is online exactly when the device
\* has a cached reading whose timestamp parses and lies within 1 hour of the
\* current time (59 minutes old is online, 61 minutes old is offline),
\* offline when it parses and does not lie within 1 hour, unknown when there
\* is no cached reading or its timestamp does not parse; last_seen is the
\* cached timestamp
C19_StatusFollowsLastSeen ==
    status_response.code = 200 =>
        LET device_id == status_response.device_id
            cached == device_id \in DOMAIN latest_readings
            timestamp == IF cached
                         THEN Get(latest_readings[device_id], "timestamp", None)
                         ELSE None
            clock == status_response.at
        IN  /\ status_response.last_seen = timestamp
            /\ status_response.status = "online" <=>
                   /\ cached
                   /\ Parses(timestamp)
                   /\ WithinOneHour(timestamp, clock)
            /\ status_response.status = "offline" <=>
                   /\ cached
                   /\ Parses(timestamp)
                   /\ ~WithinOneHour(timestamp, clock)
            /\ status_response.status = "unknown" <=>
                   (~cached \/ ~Parses(timestamp))
            /\ (cached /\ timestamp = IsoTimestamp(0, 0) /\ clock = 59) =>
                   status_response.status = "online"
            /\ (cached /\ timestamp = IsoTimestamp(0, 0) /\ clock = 61) =>
                   status_response.status = "offline"

(***************************************************************************)
(* get_history.  from and to are timestamps; 0 is an absent parameter.     *)
(***************************************************************************)
\* int(request.args.get('limit', 100))
DefaultLimit == 100

\* the segment producers put after the device in every shard name:
\* f"{device_id}/0/{YYYY/MM/DD/HH}/{mm}"
PartitionSegment == 0

\* the path segments of a shard name: device, partition, time path
NameSegments(name) == <<name.device, PartitionSegment, name.part>>

\* prefix = f"{device_id}/"; if from_date: prefix += from_date[:10]
\* .replace('-', '/') + "/": the device and, with a from, the day of from
HistoryPrefix(device_id, from_date) ==
    IF from_date = 0 THEN <<device_id>> ELSE <<device_id, from_date>>

StartsWith(segments, prefix) ==
    /\ Len(prefix) <= Len(segments)
    /\ \A i \in DOMAIN prefix : segments[i] = prefix[i]

\* list_blobs(name_starts_with=prefix): the names under the prefix, in name
\* order
HistoryBlobs(device_id, from_date) ==
    LET Listed(name) ==
            StartsWith(NameSegments(name), HistoryPrefix(device_id, from_date))
    IN  SelectSeq(ListBlobs(device_id), Listed)

\* the from / to filter of one shard's readings
FilterRange(readings, from_date, to_date) ==
    LET Kept(reading) ==
            /\ ~(from_date # 0 /\ Timestamp(reading) < from_date)
            /\ ~(to_date # 0 /\ Timestamp(reading) > to_date)
    IN  SelectSeq(readings, Kept)

\* for blob in blobs: all_readings.extend(filtered readings of the blob)
RECURSIVE HistoryReadings(_, _, _)
HistoryReadings(contents, from_date, to_date) ==
    IF contents = <<>> THEN <<>>
    ELSE FilterRange(parse_blob_data(Head(contents)), from_date, to_date)
             \o HistoryReadings(Tail(contents), from_date, to_date)

GetHistory(device_id, from_date, to_date, limit) ==
    /\ IF ~blob_service_client
       THEN history_response' = Response(503, "Storage not configured")
       ELSE LET blobs == HistoryBlobs(device_id, from_date)
                contents == [i \in DOMAIN blobs |-> store[blobs[i]].content]
                all_readings == HistoryReadings(contents, from_date, to_date)
                returned == LimitSlice(SortByTimestamp(all_readings), limit)
            IN  history_response' =
                    [code |-> 200, device_id |-> device_id,
                     readings |-> returned, count |-> Len(returned),
                     \* history: the limit and range of the request and the
                     \* readings that passed the filter
                     limit |-> limit, matching |-> all_readings,
                     from_date |-> from_date, to_date |-> to_date]
    /\ UNCHANGED <<blob_service_client, store, store_clock, devices_registry,
                   latest_readings, alerts, now, poller, current,
                   alerts_response, aggregated_response, register_response,
                   seen_max, appended, last_evaluated, irrigation_response,
                   status_response, polling_thread, threads, start_calls,
                   all_alerts_response>>

\* a store call raises: except Exception: 500
GetHistoryFails(device_id) ==
    /\ blob_service_client
    /\ history_response' = Response(500, "error")
    /\ UNCHANGED <<blob_service_client, store, store_clock, devices_registry,
                   latest_readings, alerts, now, poller, current,
                   alerts_response, aggregated_response, register_response,
                   seen_max, appended, last_evaluated, irrigation_response,
                   status_response, polling_thread, threads, start_calls,
                   all_alerts_response>>

(***************************************************************************)
(* SpecHistory: producers write shards and clients ask for the history     *)
(* with and without a range, with the default limit and with limits around *)
(* the number of stored readings.                                          *)
(***************************************************************************)
HistoryLimits == {-1, 0, 1, 2, DefaultLimit}

History ==
    \E from_date \in 0..MaxTs, to_date \in 0..MaxTs, limit \in HistoryLimits :
        GetHistory(Device1, from_date, to_date, limit)

HistoryFails == GetHistoryFails(Device1)

NextHistory ==
    \/ Upload
    \/ History
    \/ HistoryFails

SpecHistory == Init /\ [][NextHistory]_vars

\* C20: for every limit (negative ones aside), get_history returns at most
\* limit readings: the min(limit, number of matching readings) matching
\* readings of the greatest timestamps, in ascending timestamp order
C20_AtMostLimitMostRecent ==
    (history_response.code = 200 /\ history_response.limit >= 0) =>
        LET limit == history_response.limit
            readings == history_response.readings
            sorted == SortByTimestamp(history_response.matching)
            expected == IF limit <= Len(sorted) THEN limit ELSE Len(sorted)
        IN  /\ Len(readings) <= limit
            /\ history_response.count = Len(readings)
            /\ Len(readings) = expected
            /\ readings = SubSeq(sorted, Len(sorted) - expected + 1, Len(sorted))
            /\ \A i \in 1..(Len(readings) - 1) :
                   Timestamp(readings[i]) <= Timestamp(readings[i + 1])

\* two sequences hold the same readings, each as many times
SameReadings(a, b) ==
    \A r \in AsSet(a) \cup AsSet(b) :
        Cardinality({i \in DOMAIN a : a[i] = r}) =
            Cardinality({i \in DOMAIN b : b[i] = r})

\* the stored readings of a device inside the range, bounds included
InRange(device_id, from_date, to_date) ==
    LET Inside(reading) ==
            /\ from_date # 0 => from_date <= Timestamp(reading)
            /\ to_date # 0 => Timestamp(reading) <= to_date
    IN  SelectSeq(StoredReadings(device_id), Inside)

\* C21: for every from and to, the readings eligible for get_history are
\* exactly the device's stored readings, in whichever shard they lie, with
\* from <= timestamp <= to; the date-derived prefix of the listing excludes
\* no reading inside the range
C21_EligibleAreThoseInRange ==
    [][(history_response'.code = 200 /\ store' = store) =>
           SameReadings(history_response'.matching,
                        InRange(history_response'.device_id,
                                history_response'.from_date,
                                history_response'.to_date))]_vars

(***************************************************************************)
(* SpecQueries: two registered devices whose readings cross thresholds,    *)
(* the Poller, a producer, and clients of get_device_alerts with every     *)
(* severity and with limits around the length of the history.              *)
(***************************************************************************)
HeatReading(timestamp) ==
    [device_id |-> Device2, timestamp |-> timestamp, temperature |-> 36,
     humidity |-> 19]

InitQueries ==
    /\ blob_service_client = TRUE
    /\ store = Put(Put(<<>>, BlobName(Device1, 1),
                       [content |-> <<JsonLine(StormReading(1))>>,
                        last_modified |-> 1]),
                   BlobName(Device2, 1),
                   [content |-> <<JsonLine(HeatReading(2))>>,
                    last_modified |-> 2])
    /\ store_clock = 2
    /\ devices_registry =
           <<DeviceRecord(Device1, "Field A Sensor", DefaultLocation, 0),
             DeviceRecord(Device2, "Device " \o Device2, DefaultLocation, 0)>>
    /\ latest_readings = <<>>
    /\ alerts = <<>>
    /\ now = 0
    /\ poller = PollerIdle(0)
    /\ current = CurrentIdle(0, NoResponse)
    /\ alerts_response = NoResponse
    /\ aggregated_response = NoResponse
    /\ register_response = NoResponse
    /\ all_alerts_response = NoResponse
    /\ history_response = NoResponse
    /\ irrigation_response = NoResponse
    /\ status_response = NoResponse
    /\ polling_thread = 1
    /\ threads = <<"alive">>
    /\ start_calls = NoStartCalls
    /\ seen_max = [d \in Devices |-> 0]
    /\ appended = [d \in Devices |-> <<>>]
    /\ last_evaluated = [d \in Devices |-> NoReading]

QueryUpload ==
    WriteShard(Device1, 1, <<JsonLine(StormReading(store_clock + 1))>>,
               MaxQueryUploads)

QueryTick == PollTick(MaxQueryTicks)

Query ==
    \E device_id \in {Device1, "agriweather-device-009"},
       severity \in {"", "critical", "warning"}, limit \in {-1, 0, 1, 2, 20} :
        GetDeviceAlerts(device_id, severity, limit)

NextQueries ==
    \/ QueryUpload
    \/ QueryTick
    \/ PollerStep
    \/ Query

SpecQueries == InitQueries /\ [][NextQueries]_vars

\* the stored alerts of a device that match the severity, in stored order
Matching(device_id, severity) ==
    LET stored == Get(alerts, device_id, <<>>)
        indices == {i \in DOMAIN stored :
                       severity = "" \/ stored[i].severity = severity}
        Nth(n) == CHOOSE i \in indices :
                      Cardinality({j \in indices : j < i}) = n - 1
    IN  [n \in 1..Cardinality(indices) |-> stored[Nth(n)]]

\* C22: for every limit (negative ones aside) and optional severity,
\* get_alerts for a registered device returns at most limit alerts: the
\* min(limit, k) most recently appended of the k stored alerts that match the
\* severity, in stored order with the newest last, and the stored history is
\* left unchanged
C22_AtMostLimitNewestAlerts ==
    [][(/\ alerts_response' # alerts_response
        /\ alerts_response'.code = 200
        /\ alerts_response'.limit >= 0) =>
           LET limit == alerts_response'.limit
               matching == Matching(alerts_response'.device_id,
                                    alerts_response'.severity)
               k == Len(matching)
               expected == IF limit <= k THEN limit ELSE k
           IN  /\ Len(alerts_response'.alerts) <= limit
               /\ alerts_response'.count = Len(alerts_response'.alerts)
               /\ alerts_response'.alerts = SubSeq(matching, k - expected + 1, k)
               /\ alerts' = alerts]_vars

(***************************************************************************)
(* get_all_alerts                                                          *)
(***************************************************************************)
\* alert_with_device = alert.copy(); alert_with_device['device_id'] = device_id
Tagged(alert, device_id) ==
    [k \in DOMAIN alert \cup {"device_id"} |->
        IF k = "device_id" THEN device_id ELSE alert[k]]

\* for device_id, device_alerts in alerts.items(): for alert in device_alerts
RECURSIVE Collect(_, _)
Collect(histories, device_ids) ==
    IF device_ids = {} THEN <<>>
    ELSE LET device_id == CHOOSE d \in device_ids : TRUE
         IN  [i \in DOMAIN histories[device_id] |->
                 Tagged(histories[device_id][i], device_id)]
             \o Collect(histories, device_ids \ {device_id})

\* a sort that puts the oldest first
RECURSIVE SortOldestFirst(_)
SortOldestFirst(all_alerts) ==
    IF all_alerts = <<>> THEN <<>>
    ELSE InsertByTimestamp(SortOldestFirst(Front(all_alerts)), Last(all_alerts))

RECURSIVE InsertNewestFirst(_, _)
InsertNewestFirst(sorted, alert) ==
    IF sorted = <<>> THEN <<alert>>
    ELSE IF Timestamp(Last(sorted)) >= Timestamp(alert)
         THEN Append(sorted, alert)
         ELSE Append(InsertNewestFirst(Front(sorted), alert), Last(sorted))

\* all_alerts.sort(key=lambda x: x.get('timestamp', ''), reverse=True): stable
RECURSIVE SortNewestFirst(_)
SortNewestFirst(all_alerts) ==
    IF all_alerts = <<>> THEN <<>>
    ELSE InsertNewestFirst(SortNewestFirst(Front(all_alerts)), Last(all_alerts))

\* all_alerts[:limit]: a negative limit drops the last -limit entries
FirstN(all_alerts, limit) ==
    LET n == IF limit >= 0 THEN limit ELSE Len(all_alerts) + limit
    IN  IF n <= 0 THEN <<>>
        ELSE IF n >= Len(all_alerts) THEN all_alerts
        ELSE SubSeq(all_alerts, 1, n)

GetAllAlerts(limit) ==
    /\ LET all_alerts ==
               FirstN(SortNewestFirst(Collect(alerts, DOMAIN alerts)), limit)
       IN  all_alerts_response' =
               [code |-> 200, alerts |-> all_alerts, count |-> Len(all_alerts),
                \* history: the limit of the request
                limit |-> limit]
    /\ UNCHANGED <<blob_service_client, store, store_clock, devices_registry,
                   latest_readings, alerts, now, poller, current,
                   alerts_response, aggregated_response, register_response,
                   seen_max, appended, last_evaluated, history_response,
                   irrigation_response, status_response, polling_thread,
                   threads, start_calls>>

\* the Poller stores the first history of a device while the handler
\* iterates over alerts.items(): RuntimeError (dictionary changed size during
\* iteration), which the framework answers with 500
GetAllAlertsFails ==
    /\ poller.pc = "truncate"
    /\ poller.device_id \notin DOMAIN alerts
    /\ all_alerts_response' = Response(500, "error")
    /\ UNCHANGED <<blob_service_client, store, store_clock, devices_registry,
                   latest_readings, alerts, now, poller, current,
                   alerts_response, aggregated_response, register_response,
                   seen_max, appended, last_evaluated, history_response,
                   irrigation_response, status_response, polling_thread,
                   threads, start_calls>>

(***************************************************************************)
(* SpecAllAlerts: the devices, Poller and producer of SpecQueries, and     *)
(* clients of get_all_alerts with limits around the number of alerts.      *)
(***************************************************************************)
AllQuery == \E limit \in {-1, 0, 1, 5, 50} : GetAllAlerts(limit)

NextAllAlerts ==
    \/ QueryUpload
    \/ QueryTick
    \/ PollerStep
    \/ AllQuery
    \/ GetAllAlertsFails

SpecAllAlerts == InitQueries /\ [][NextAllAlerts]_vars

\* the alert as it is stored: without the tag
Untagged(alert) == [k \in DOMAIN alert \ {"device_id"} |-> alert[k]]

\* the positions of the stored alerts: device and index in its history
StoredAlerts ==
    UNION {{<<d, i>> : i \in DOMAIN alerts[d]} : d \in DOMAIN alerts}

TestLocation == [latitude |-> 52, longitude |-> 21]

RegistrationBodies ==
    {<<>>,
     [name |-> "Test Device"],
     [device_id |-> Device1],
     [device_id |-> Device2],
     [device_id |-> Device2, name |-> "Test Device", location |-> TestLocation]}

RegisterAny == \E data \in RegistrationBodies : RegisterDevice(data)

RegistryElapse == ElapseUntil(MaxRegistryClock)

NextRegistry ==
    \/ RegisterAny
    \/ RegistryElapse

SpecRegistry == Init /\ [][NextRegistry]_vars

\* the identifiers in the registry
RegisteredIds(registry) == {registry[i].device_id : i \in DOMAIN registry}

\* the record of an identifier in a registry
RecordOf(registry, device_id) ==
    registry[CHOOSE i \in DOMAIN registry : registry[i].device_id = device_id]

\* a registration has just been accepted
Accepted ==
    /\ register_response' # register_response
    /\ register_response'.code = 201

\* the accepted registration repeats the body of the one before it
Repeated ==
    /\ Accepted
    /\ register_response.code = 201
    /\ register_response'.data = register_response.data

\* C24 as stated: registering the same input twice leaves the registry as
\* after registering it once
C24_RepeatedRegistrationChangesNothing ==
    [][Repeated => devices_registry' = devices_registry]_vars

\* C24: the registry holds exactly one record per registered identifier, the
\* preloaded device included; the record is the one built by the latest
\* registration of the identifier; a registration changes no other record;
\* a device in the registry stays in it; and registering the same input
\* twice leaves the registry as after registering it once except for the
\* registered_at of the record, which is the time of the later registration
C24_OneRecordPerIdentifier ==
    [][/\ \A i \in DOMAIN devices_registry', j \in DOMAIN devices_registry' :
              devices_registry'[i].device_id = devices_registry'[j].device_id
                  => i = j
       /\ RegisteredIds(devices_registry) \subseteq
              RegisteredIds(devices_registry')
       /\ Device1 \in RegisteredIds(devices_registry')
       /\ Accepted =>
              LET device_id == register_response'.data.device_id
              IN  /\ RegisteredIds(devices_registry') =
                         RegisteredIds(devices_registry) \cup {device_id}
                  /\ RecordOf(devices_registry', device_id) =
                         register_response'.body
                  /\ \A d \in RegisteredIds(devices_registry) \ {device_id} :
                         RecordOf(devices_registry', d) =
                             RecordOf(devices_registry, d)
       /\ ~Accepted => devices_registry' = devices_registry
       /\ Repeated =>
              LET device_id == register_response'.data.device_id
              IN  /\ Len(devices_registry') = Len(devices_registry)
                  /\ \A i \in DOMAIN devices_registry :
                         devices_registry'[i] =
                             IF devices_registry[i].device_id = device_id
                             THEN [devices_registry[i] EXCEPT
                                      !.registered_at = now]
                             ELSE devices_registry[i]]_vars

\* the preloaded device was registered again, which replaced its record in
\* place, and a second device was registered after it
C24_Witness ==
    /\ Len(devices_registry) = 2
    /\ devices_registry[1].device_id = Device1
    /\ devices_registry[1].registered_at = 1
    /\ devices_registry[2].name = "Test Device"
    /\ devices_registry[2].registered_at = 2
    /\ register_response.code = 201
    /\ register_response.body = devices_registry[2]

(***************************************************************************)
(* SpecRejects: the two devices and the Poller of SpecQueries, which fill  *)
(* the cache and the alert histories, and clients whose registrations are  *)
(* accepted or rejected.                                                   *)
(***************************************************************************)
NextRejects ==
    \/ QueryTick
    \/ PollerStep
    \/ RegisterAny

SpecRejects == InitQueries /\ [][NextRejects]_vars

\* the body of the last registration request carries no device identifier
NoIdentifier(response) == "device_id" \notin DOMAIN response.data

\* C25: a registration request with no body or without a device identifier
\* is answered 400, a request with one is not, and the rejected request
\* leaves the device registry, the cache and all alert histories as they
\* were
C25_RejectedBeforeAnyMutation ==
    [][register_response' # register_response =>
           /\ register_response'.code = 400 <=> NoIdentifier(register_response')
           /\ register_response'.code = 400 =>
                  UNCHANGED <<devices_registry, latest_readings, alerts>>]_vars

\* a body with a name and no identifier was rejected while the cache and the
\* alert histories held the data of both devices
C25_Witness ==
    /\ register_response.code = 400
    /\ register_response.data = [name |-> "Test Device"]
    /\ DOMAIN latest_readings = Devices
    /\ DOMAIN alerts = Devices
    /\ Len(devices_registry) = 2

(***************************************************************************)
(* SpecFetch: a store that may be unconfigured, may be empty and may fail, *)
(* a producer, and clients of the three on-demand fetches.                 *)
(***************************************************************************)
FetchHistory == GetHistory(Device1, 0, 0, DefaultLimit)

FetchAggregated == GetAggregated(Device1, "day")

NextFetch ==
    \/ Upload
    \/ GetCurrent
    \/ CurrentStep
    \/ FetchHistory
    \/ HistoryFails
    \/ FetchAggregated
    \/ AggregateFails

SpecFetch == Init /\ [][NextFetch]_vars

\* the outcome of a fetch: store unavailable is 503, not found is 404
StoreUnavailable(code) == code = 503

NotFound(code) == code = 404

\* C26: each on-demand fetch reports 'store unavailable' (503) when the
\* store is unconfigured or a store call fails, 'not found' (404) when the
\* store is available and holds no data of the device, and a result (200)
\* otherwise; no fetch ends in a generic failure (500)
C26_UnavailableAndNotFoundAreDistinct ==
    [][/\ current'.response.code \in {0, 200, 404, 503}
       /\ history_response'.code \in {0, 200, 404, 503}
       /\ aggregated_response'.code \in {0, 200, 404, 503}
       /\ history_response' # history_response =>
              /\ StoreUnavailable(history_response'.code)
                     <=> ~blob_service_client
              /\ NotFound(history_response'.code) <=>
                     (blob_service_client /\ StoredReadings(Device1) = <<>>)
       /\ aggregated_response' # aggregated_response =>
              /\ StoreUnavailable(aggregated_response'.code)
                     <=> ~blob_service_client
              /\ NotFound(aggregated_response'.code) <=>
                     (blob_service_client /\ StoredReadings(Device1) = <<>>)
       /\ current'.response # current.response =>
              /\ StoreUnavailable(current'.response.code)
                     => ~blob_service_client
              /\ NotFound(current'.response.code) =>
                     blob_service_client]_vars

\* C27: crop_type has no influence on the irrigation result: two successive
\* recommendations for the same device over the same cached reading, whatever
\* their crop_type, carry the same conditions, recommendation text,
\* needs_irrigation and water amount; crop_type is one of the labels sent
C27_CropTypeIsOnlyALabel ==
    [][(/\ irrigation_response.code = 200
        /\ irrigation_response'.code = 200
        /\ irrigation_response'.device_id = irrigation_response.device_id
        /\ latest_readings' = latest_readings) =>
           /\ irrigation_response'.current_conditions =
                  irrigation_response.current_conditions
           /\ irrigation_response'.recommendation =
                  irrigation_response.recommendation
           /\ irrigation_response'.needs_irrigation =
                  irrigation_response.needs_irrigation
           /\ irrigation_response'.suggested_water_amount_liters =
                  irrigation_response.suggested_water_amount_liters
           /\ irrigation_response'.crop_type \in {"general", "wheat"}]_vars

\* a recommendation to irrigate 12.5 liters returned under the label wheat
C27_Witness ==
    /\ irrigation_response.code = 200
    /\ irrigation_response.crop_type = "wheat"
    /\ irrigation_response.needs_irrigation
    /\ irrigation_response.suggested_water_amount_liters = 1250
    /\ Device1 \in DOMAIN latest_readings

(***************************************************************************)
(* SpecSelect: one tick of the Poller over a store drawn with up to three  *)
(* shards of the first device; a shard holds one reading or two in time    *)
(* order, and two readings of the store may carry the same timestamp.      *)
(***************************************************************************)
SelectContents ==
    {<<JsonLine(Reading(Device1, 1, 10))>>,
     <<JsonLine(Reading(Device1, 1, 36))>>,
     <<JsonLine(Reading(Device1, 2, 10))>>,
     <<JsonLine(Reading(Device1, 2, 36))>>,
     <<JsonLine(Reading(Device1, 1, 10)), JsonLine(Reading(Device1, 2, 36))>>}

SelectNames == {BlobName(Device1, part) : part \in 1..(MaxParts + 1)}

SelectStores ==
    UNION {[names -> {[content |-> c, last_modified |-> 1] :
                         c \in SelectContents}] :
           names \in SUBSET SelectNames}

InitSelect ==
    /\ blob_service_client = TRUE
    /\ store \in SelectStores
    /\ store_clock = 1
    /\ devices_registry =
           <<DeviceRecord(Device1, "Field A Sensor", DefaultLocation, 0)>>
    /\ latest_readings = <<>>
    /\ alerts = <<>>
    /\ now = 0
    /\ poller = PollerIdle(0)
    /\ current = CurrentIdle(0, NoResponse)
    /\ alerts_response = NoResponse
    /\ aggregated_response = NoResponse
    /\ register_response = NoResponse
    /\ all_alerts_response = NoResponse
    /\ history_response = NoResponse
    /\ irrigation_response = NoResponse
    /\ status_response = NoResponse
    /\ polling_thread = 1
    /\ threads = <<"alive">>
    /\ start_calls = NoStartCalls
    /\ seen_max = [d \in Devices |-> 0]
    /\ appended = [d \in Devices |-> <<>>]
    /\ last_evaluated = [d \in Devices |-> NoReading]

SelectTick == PollTick(MaxSelectTicks)

NextSelect ==
    \/ SelectTick
    \/ PollerStep

SpecSelect == InitSelect /\ [][NextSelect]_vars

\* the reading the tick would select had the shards been read in another
\* order
SelectedFrom(contents, order) ==
    LatestOf(MergeShards([i \in DOMAIN contents |-> contents[order[i]]]))

\* the step that selects the latest reading of the shards collected
Selects == poller.pc = "select" /\ poller'.pc = "compare"

\* one reading only carries the greatest timestamp
UniqueMaximum(readings) ==
    \A r1 \in AsSet(readings), r2 \in AsSet(readings) :
        (/\ Timestamp(r1) = MaxTimestamp(readings)
         /\ Timestamp(r2) = MaxTimestamp(readings)) => r1 = r2

\* C28 as stated: for every permutation of the order in which the shards
\* are read, the tick selects the same reading
C28_SameReadingForEveryOrder ==
    [][Selects =>
           \A order \in Permutations(DOMAIN poller.merged_from) :
               SelectedFrom(poller.merged_from, order) = poller'.latest]_vars

\* C28: the reading a tick selects is one of the readings of the shards
\* collected in the tick and has the maximal timestamp among them; for
\* every permutation of the order in which the shards are read the selected
\* reading has that timestamp, and it is the same reading whenever one
\* reading only carries the maximal timestamp
C28_SortDeterminesTheWinner ==
    [][Selects =>
           LET readings == ReadingsOf(poller.merged_from)
           IN  /\ poller'.latest \in AsSet(readings)
               /\ \A r \in AsSet(readings) :
                      Timestamp(r) <= Timestamp(poller'.latest)
               /\ \A order \in Permutations(DOMAIN poller.merged_from) :
                      /\ Timestamp(SelectedFrom(poller.merged_from, order)) =
                             Timestamp(poller'.latest)
                      /\ UniqueMaximum(readings) =>
                             SelectedFrom(poller.merged_from, order) =
                                 poller'.latest]_vars

\* three shards were read without a failure, the one read last holds an
\* older reading only, and the reading selected is the newer one
C28_Witness ==
    /\ poller.pc = "compare"
    /\ poller.failures = 0
    /\ Len(ListBlobs(Device1)) = 3
    /\ MaxTimestamp(parse_blob_data(store[BlobName(Device1, 3)].content)) = 1
    /\ Timestamp(poller.latest) = 2
    /\ UniqueMaximum(StoredReadings(Device1))

(***************************************************************************)
(* SpecEvaluated: one device whose readings all cross the high temperature *)
(* threshold, each with a temperature of its own.  The producer, the       *)
(* get_current requests and the Poller's ticks take turns: nothing         *)
(* overlaps a tick.                                                        *)
(***************************************************************************)
EvalUpload ==
    /\ poller.pc = "sleep"
    /\ current.pc = "idle"
    /\ \E part \in 1..MaxParts :
           WriteShard(Device1, part,
                      <<JsonLine(FaultReading(Device1, store_clock + 1))>>,
                      MaxUploads)

EvalCurrent ==
    /\ poller.pc = "sleep"
    /\ \/ GetCurrent
       \/ CurrentStep

EvalTick ==
    /\ current.pc = "idle"
    /\ Tick

NextEvaluated ==
    \/ EvalUpload
    \/ EvalCurrent
    \/ EvalTick
    \/ PollerStep

SpecEvaluated == Init /\ [][NextEvaluated]_vars

\* the Alert Engine has at some time appended the alerts of the reading
AlertsReceived(device_id, reading) ==
    \E i \in DOMAIN appended[device_id] :
        /\ appended[device_id][i].type = "high_temperature"
        /\ appended[device_id][i].value = reading.temperature

\* C29: when the Poller completes a tick for a device whose cached latest
\* reading crosses a threshold, whether the Poller or get_current's direct
\* fetch cached it, the device's alert history has received the alerts for
\* that reading
C29_CachedLatestWasEvaluated ==
    [][TickCompletes =>
           \A d \in DOMAIN latest_readings :
               (d \in poller.scanned /\ NewAlerts(latest_readings[d], 0) # <<>>)
                   => AlertsReceived(d, latest_readings[d])]_vars

\* the devices that were in the registry when the tick's iteration began
RegisteredAtTickStart == {RegistryKeys[i] : i \in 1..poller.iter_size}

\* the tick's iteration over the registry ends, by exhaustion or by an error
TickEnds == poller.pc = "for" /\ poller'.pc = "sleep"

\* C30: a registration that runs while a tick iterates over the registry
\* does not cut the tick short: when the tick ends, every device that was
\* registered when it started has been scanned in it, and the Poller is
\* still running
C30_RegistrationDoesNotCutTick ==
    [][/\ TickEnds => RegisteredAtTickStart \subseteq poller.scanned
       /\ poller'.pc # "stopped"]_vars

=============================================================================
